---- MODULE Spec2Model ----
(***************************************************************************)
(* A model of stock_readiness_scanner3.py: the per-ticker analysis          *)
(* (analyze_ticker), the multi-timeframe confirmation, the buy-the-dip      *)
(* detector, the buy-signal decision and the score history.                 *)
(*                                                                          *)
(* Numbers.  The program computes in binary floating point, and so does    *)
(* the model: a number is an IEEE-754 binary64 float, a record              *)
(* [k |-> "num", neg |-> sign, m |-> mantissa, e |-> exponent], and every   *)
(* operation rounds as the machine does.  NaN (numpy.nan), None and         *)
(* +infinity are the other kinds, so that every numeric field has one       *)
(* shape.  The EMAs are floats as well, computed bar by bar as pandas'      *)
(* ewm does.                                                                *)
(*                                                                          *)
(* caught is a history variable: it records which try blocks of the         *)
(* sub-features (a timeframe of the MTF loop, the fetch of the dip          *)
(* detector) have caught an exception, which the program itself forgets.    *)
(* invoked is another: it records which scorers a call has run.             *)
(***************************************************************************)
EXTENDS Integers, Sequences, FiniteSets, TLC

VARIABLES
  pc,              \* position inside analyze_ticker
  ticker,          \* the ticker being analysed
  asset_class,     \* analyze_ticker: asset_class
  tech_daily,      \* analyze_ticker: tech_daily
  opt,             \* analyze_ticker: opt
  price_sub,       \* analyze_ticker: price_sub
  flow_sub,        \* analyze_ticker: flow_sub
  fund_sub,        \* analyze_ticker: fund_sub
  inst_proxy,      \* analyze_ticker: inst_proxy
  final_score,     \* analyze_ticker: final_score
  tf_i,            \* compute_mtf_confirmation: index of the next timeframe
  positives,       \* compute_mtf_confirmation: positives
  details,         \* compute_mtf_confirmation: details
  mtf_count,       \* analyze_ticker: mtf_count
  mtf_confirm,     \* analyze_ticker: mtf_confirm
  mtf_details,     \* analyze_ticker: mtf_details
  hist,            \* detect_buy_the_dip: hist
  btd_flag,        \* analyze_ticker: btd_flag
  btd_pullback,    \* analyze_ticker: btd_pullback
  btd_recent_high, \* analyze_ticker: btd_recent_high
  buy_signal,      \* analyze_ticker: buy_signal
  score_trend,     \* analyze_ticker: score_trend
  history_file,    \* readiness_history.csv
  rec,             \* analyze_ticker: rec, the record returned
  caught,          \* which except clauses of the sub-features have run
  invoked,         \* which scorers analyze_ticker has called
  weights,         \* analyze_ticker: p_w, f_w, fund_w, inst_w
  tickers,         \* run_and_save: tickers
  t_i,             \* run_and_save: index of the next ticker of the loop
  rows,            \* run_and_save: rows
  df_sorted,       \* run_and_save: df_sorted, as a list of records
  provider,        \* what the data provider holds for each ticker of the list
  calls            \* calls of one scorer on its own: arguments and result of each

vars == <<pc, ticker, asset_class, tech_daily, opt, price_sub, flow_sub,
          fund_sub, inst_proxy, final_score, tf_i, positives, details,
          mtf_count, mtf_confirm, mtf_details, hist, btd_flag, btd_pullback,
          btd_recent_high, buy_signal, score_trend, history_file, rec,
          caught, invoked, weights, tickers, t_i, rows, df_sorted, provider,
          calls>>

\* the state of run_and_save and of the provider, and the calls made outside
\* analyze_ticker
batch == <<tickers, t_i, rows, df_sorted, provider, calls>>

----------------------------------------------------------------------------
(* Numbers *)

Abs(x) == IF x < 0 THEN -x ELSE x

\* Natural numbers of any size are sequences of limbs in base Limb = 2^14,
\* the least significant first, with no leading zero limb: a float has a
\* mantissa of 53 bits, and the product of two has 106, far beyond the
\* integers TLC has.
Limb == 2^14

RECURSIVE BigOf(_)
BigOf(n) == IF n = 0 THEN <<>> ELSE <<n % Limb>> \o BigOf(n \div Limb)

RECURSIVE BigMulC(_, _, _)
BigMulC(b, m, carry) ==
  IF b = <<>> THEN BigOf(carry)
  ELSE CHOOSE z \in {<<v % Limb>> \o BigMulC(Tail(b), m, v \div Limb)
                       : v \in {Head(b) * m + carry}} : TRUE

\* b * m for a small m >= 0
BigMul(b, m) ==
  CHOOSE z \in {IF c = 0 THEN <<>> ELSE BigMulC(x, c, 0) : x \in {b}, c \in {m}} : TRUE

RECURSIVE BigAddC(_, _, _)
BigAddC(a, b, carry) ==
  IF a = <<>> /\ b = <<>> THEN BigOf(carry)
  ELSE CHOOSE z \in
         {<<v % Limb>> \o BigAddC(IF a = <<>> THEN a ELSE Tail(a),
                                  IF b = <<>> THEN b ELSE Tail(b), v \div Limb)
            : v \in {(IF a = <<>> THEN 0 ELSE Head(a))
                       + (IF b = <<>> THEN 0 ELSE Head(b)) + carry}} : TRUE

BigAdd(a, b) == CHOOSE z \in {BigAddC(x, y, 0) : x \in {a}, y \in {b}} : TRUE

BigShift(a) == CHOOSE z \in {IF x = <<>> THEN x ELSE <<0>> \o x : x \in {a}} : TRUE

RECURSIVE BigTimes(_, _)
BigTimes(a, b) ==
  CHOOSE z \in {IF x = <<>> THEN <<>>
                ELSE BigAdd(BigMul(y, Head(x)), BigShift(BigTimes(Tail(x), y)))
                  : x \in {a}, y \in {b}} : TRUE

\* a < b for two numbers of the same length, from the most significant limb
RECURSIVE BigLtSame(_, _)
BigLtSame(a, b) ==
  IF a = <<>> THEN FALSE
  ELSE LET m == Len(a)
       IN  IF a[m] # b[m] THEN a[m] < b[m]
           ELSE BigLtSame(SubSeq(a, 1, m - 1), SubSeq(b, 1, m - 1))

BigLt(a, b) ==
  \E x \in {a}, y \in {b} :
    IF Len(x) # Len(y) THEN Len(x) < Len(y) ELSE BigLtSame(x, y)

RECURSIVE BigSubC(_, _, _)
BigSubC(a, b, borrow) ==
  IF a = <<>> THEN <<>>
  ELSE CHOOSE z \in
         {<<IF v < 0 THEN v + Limb ELSE v>>
            \o BigSubC(Tail(a), IF b = <<>> THEN b ELSE Tail(b), IF v < 0 THEN 1 ELSE 0)
            : v \in {Head(a) - (IF b = <<>> THEN 0 ELSE Head(b)) - borrow}} : TRUE

RECURSIVE BigTrim(_)
BigTrim(a) ==
  IF a = <<>> \/ a[Len(a)] # 0 THEN a ELSE BigTrim(SubSeq(a, 1, Len(a) - 1))

\* a - b for a >= b
BigSub(a, b) == CHOOSE z \in {BigTrim(BigSubC(x, y, 0)) : x \in {a}, y \in {b}} : TRUE

\* Every number the program computes with is a Python float.  A float
\* (IEEE-754 binary64, finite, not subnormal) is a sign, a mantissa m with
\* 2^52 <= m < 2^53 and an exponent e, standing for m * 2^e; zero has the
\* empty mantissa.  Every operation rounds its exact result to the nearest
\* float, a tie going to the even mantissa.  (A value that is used more than
\* once is bound in a one-element set, which has it computed once.)
BigOdd(a) == a # <<>> /\ a[1] % 2 = 1

\* the number of bits of a limb n > 0
LimbBits(n) == CHOOSE b \in 1..14 : 2^(b - 1) <= n /\ n < 2^b

\* the number of bits of a, 0 for 0
BitLen(a) ==
  CHOOSE b \in {IF x = <<>> THEN 0 ELSE 14 * (Len(x) - 1) + LimbBits(x[Len(x)])
                  : x \in {a}} : TRUE

\* a * 2^k
BigShl(a, k) ==
  CHOOSE z \in {IF x = <<>> THEN x
                ELSE [i \in 1..(k \div 14) |-> 0] \o BigMul(x, 2^(k % 14))
                  : x \in {a}} : TRUE

\* quotient (not trimmed) and remainder of a by a small c > 0
RECURSIVE BigDivC(_, _)
BigDivC(a, c) ==
  IF a = <<>> THEN [q |-> <<>>, r |-> 0]
  ELSE CHOOSE z \in
         UNION {{[q |-> <<v \div c>> \o hi.q, r |-> v % c]
                   : v \in {hi.r * Limb + Head(a)}}
                : hi \in {BigDivC(Tail(a), c)}} : TRUE

\* a shifted right by k bits, and whether a one was shifted out
BigShr(a, k) ==
  CHOOSE z \in
    {IF Len(x) <= k \div 14 THEN [m |-> <<>>, sticky |-> x # <<>>]
     ELSE CHOOSE w \in
            {[m |-> BigTrim(d.q),
              sticky |-> d.r # 0 \/ \E i \in 1..(k \div 14) : x[i] # 0]
               : d \in {BigDivC(SubSeq(x, (k \div 14) + 1, Len(x)), 2^(k % 14))}} : TRUE
       : x \in {a}} : TRUE

F64Zero == [k |-> "num", neg |-> FALSE, m |-> <<>>, e |-> 0]

\* 2^52 and 2^55 in limbs
Two52 == <<0, 0, 0, 2^10>>

Two55 == <<0, 0, 0, 2^13>>

\* the mantissa m of 53 bits, or 2^53, with the exponent e
F64Norm(neg, m, e) ==
  IF m[4] = 2^11 THEN [k |-> "num", neg |-> neg, m |-> Two52, e |-> e + 1]
  ELSE [k |-> "num", neg |-> neg, m |-> m, e |-> e]

\* F64Round for a mantissa m of b > 53 bits: of its first 54 bits the last
\* is the guard bit d.r, and s.sticky says whether a one came after it
F64RoundDown(neg, m, e, inexact, b) ==
  CHOOSE z \in
    UNION {{F64Norm(neg,
                    IF d.r = 1 /\ (s.sticky \/ inexact \/ BigOdd(d.q))
                    THEN BigAdd(d.q, <<1>>) ELSE d.q,
                    e + (b - 53))
              : d \in {BigDivC(s.m, 2)}}
           : s \in {BigShr(m, b - 54)}} : TRUE

\* the float nearest to (-1)^neg * (m + t) * 2^e, where 0 < t < 1 if inexact
\* (m then has 54 bits or more) and t = 0 otherwise
F64Round(neg, m, e, inexact) ==
  CHOOSE z \in
    UNION {{IF b = 0 THEN F64Zero
            ELSE IF b <= 53
            THEN [k |-> "num", neg |-> neg, m |-> BigShl(mm, 53 - b), e |-> e - (53 - b)]
            ELSE F64RoundDown(neg, mm, e, inexact, b)
              : b \in {BitLen(mm)}}
           : mm \in {m}} : TRUE

F64Neg(a) == IF a.m = <<>> THEN a ELSE [k |-> "num", neg |-> ~a.neg, m |-> a.m, e |-> a.e]

\* x + y for two floats other than zero, on the common exponent e
F64AddAt(x, y, e) ==
  CHOOSE z \in
    {IF x.neg = y.neg THEN F64Round(x.neg, BigAdd(mx, my), e, FALSE)
     ELSE IF BigLt(mx, my) THEN F64Round(y.neg, BigSub(my, mx), e, FALSE)
     ELSE F64Round(x.neg, BigSub(mx, my), e, FALSE)
       : mx \in {BigShl(x.m, x.e - e)},
         my \in {BigShl(y.m, y.e - e)}} : TRUE

\* a + b
F64Add(a, b) ==
  CHOOSE z \in
    {IF x.m = <<>> THEN y
     ELSE IF y.m = <<>> THEN x
     ELSE F64AddAt(x, y, IF x.e < y.e THEN x.e ELSE y.e)
       : x \in {a}, y \in {b}} : TRUE

\* a - b
F64Sub(a, b) == F64Add(a, F64Neg(b))

\* a * b
F64Mul(a, b) ==
  CHOOSE z \in
    {IF x.m = <<>> \/ y.m = <<>> THEN F64Zero
     ELSE F64Round(x.neg # y.neg, BigTimes(x.m, y.m), x.e + y.e, FALSE)
       : x \in {a}, y \in {b}} : TRUE

\* r * 2^k divided by b, for r < b: quotient and remainder
RECURSIVE F64DivBits(_, _, _)
F64DivBits(r, b, k) ==
  IF k = 0 THEN [q |-> <<>>, r |-> r]
  ELSE IF k = 1
  THEN CHOOSE z \in
         {IF BigLt(r2, b) THEN [q |-> <<>>, r |-> r2]
          ELSE [q |-> <<1>>, r |-> BigSub(r2, b)]
            : r2 \in {BigMul(r, 2)}} : TRUE
  ELSE CHOOSE z \in
         UNION {{[q |-> BigAdd(BigShl(x.q, k - (k \div 2)), y.q), r |-> y.r]
                   : y \in {F64DivBits(x.r, b, k - (k \div 2))}}
                : x \in {F64DivBits(r, b, k \div 2)}} : TRUE

\* x / y for two floats other than zero: the integer part of the quotient of
\* the mantissas (first), 55 bits after it, then the rounding
F64DivAt(x, y, first) ==
  CHOOSE z \in
    {F64Round(x.neg # y.neg, IF first THEN BigAdd(Two55, d.q) ELSE d.q,
              x.e - y.e - 55, d.r # <<>>)
       : d \in {F64DivBits(IF first THEN BigSub(x.m, y.m) ELSE x.m, y.m, 55)}} : TRUE

\* the natural number a float b > 0 stands for when that is a whole number
\* below 2^17, and 0 when it is not
F64Small(b) ==
  IF b.e > -36 \/ b.e < -52 THEN 0
  ELSE CHOOSE c \in
         {IF s.sticky THEN 0
          ELSE IF Len(s.m) = 1 THEN s.m[1] ELSE s.m[1] + Limb * s.m[2]
            : s \in {BigShr(b.m, -b.e)}} : TRUE

\* the float nearest to (-1)^neg * (n / c) * 2^e, for a natural number n of
\* any size and a whole number 0 < c < 2^17: the quotient of n, 70 bits
\* longer, by c, then the rounding
F64Quotient(neg, n, c, e) ==
  CHOOSE z \in
    {F64Round(neg, BigTrim(d.q), e - 70, d.r # 0)
       : d \in {BigDivC(BigShl(n, 70), c)}} : TRUE

\* a / b for b other than zero.  (By a power of two the quotient is exact,
\* and by a small whole number it is one short division; what is returned is
\* in every case the float nearest to the quotient.)
F64Div(a, b) ==
  CHOOSE z \in
    {IF x.m = <<>> THEN F64Zero
     ELSE IF y.m = Two52
     THEN [k |-> "num", neg |-> x.neg # y.neg, m |-> x.m, e |-> x.e - y.e - 52]
     ELSE CHOOSE w \in
            {IF c > 0 THEN F64Quotient(x.neg # y.neg, x.m, c, x.e)
             ELSE F64DivAt(x, y, ~BigLt(x.m, y.m))
               : c \in {F64Small(y)}} : TRUE
       : x \in {a}, y \in {b}} : TRUE

\* a > 0
F64Positive(a) == a.m # <<>> /\ ~a.neg

\* max(0.0, a)
F64Max0(a) == IF F64Positive(a) THEN a ELSE F64Zero

\* the float of a natural number below 2^31
F64Int(k) == F64Round(FALSE, BigOf(k), 0, FALSE)

\* a < b
F64Lt(a, b) ==
  \E x \in {a}, y \in {b} :
    IF x.m = <<>> THEN (y.m # <<>> /\ ~y.neg)
    ELSE IF y.m = <<>> THEN x.neg
    ELSE IF x.neg # y.neg THEN x.neg
    ELSE IF x.neg THEN (y.e < x.e \/ (x.e = y.e /\ BigLt(y.m, x.m)))
    ELSE (x.e < y.e \/ (x.e = y.e /\ BigLt(x.m, y.m)))

\* the next float above a float a > 0
F64Up(a) == F64Norm(a.neg, BigAdd(a.m, <<1>>), a.e)

\* The values of the program: a float ("num"), np.nan, None, and the
\* infinity that a division by 0.0 of pandas gives.
NaN == [k |-> "nan", neg |-> FALSE, m |-> <<>>, e |-> 0]
None == [k |-> "none", neg |-> FALSE, m |-> <<>>, e |-> 0]
Inf == [k |-> "inf", neg |-> FALSE, m |-> <<>>, e |-> 0]

\* np.isfinite(x)
IsFinite(x) == x.k = "num"

\* "x is None or np.isnan(x)"
IsMissing(x) == x.k \in {"nan", "none"}

\* float(n) for a whole number n
I(n) == F64Round(n < 0, BigOf(Abs(n)), 0, FALSE)

\* n / d for two whole numbers, 0 < |d| < 2^17, which is also the float that
\* the decimal literal with the value n/d stands for: the float nearest to
\* n/d
R(n, d) == F64Quotient((n < 0) # (d < 0), BigOf(Abs(n)), Abs(d), 0)

\* x + y, x - y, x * y, x / y (y # 0) and abs(x), of floats
RAdd(x, y) == F64Add(x, y)
RSub(x, y) == F64Sub(x, y)
RMul(x, y) == F64Mul(x, y)
RDiv(x, y) == F64Div(x, y)
RAbs(x) == CHOOSE r \in {[a EXCEPT !.neg = FALSE] : a \in {x}} : TRUE

\* x < y and the like: False when either side is NaN
RLt(x, y) == \E a \in {x}, b \in {y} : IsFinite(a) /\ IsFinite(b) /\ F64Lt(a, b)
RLe(x, y) == \E a \in {x}, b \in {y} : IsFinite(a) /\ IsFinite(b) /\ ~F64Lt(b, a)
RGt(x, y) == RLt(y, x)
RGe(x, y) == RLe(y, x)

\* min(x, y) and max(x, y) of Python: the first argument unless the second
\* is smaller (larger)
RMin(x, y) == CHOOSE r \in {IF RLt(b, a) THEN b ELSE a : a \in {x}, b \in {y}} : TRUE
RMax(x, y) == CHOOSE r \in {IF RLt(a, b) THEN b ELSE a : a \in {x}, b \in {y}} : TRUE

\* max(0.0, min(1.0, x))
Clamp01(x) == RMax(I(0), RMin(I(1), x))

Pow10(p) == IF p = 4 THEN 10000 ELSE IF p = 2 THEN 100 ELSE 1

\* round(x, p) of a Python float: the exact value of the float x is rounded
\* to p decimals, a tie going to the even neighbour, and the result is the
\* float nearest to that decimal.  (s is |x| * 10^p * 2, cut to a whole
\* number: its last bit d.r says whether the half is reached, s.sticky
\* whether it is passed.)
Round(x, p) ==
  IF ~IsFinite(x) THEN x
  ELSE IF x.m = <<>> \/ x.e >= 0 THEN x
  ELSE CHOOSE z \in
         UNION {{F64Quotient(x.neg,
                             IF d.r = 1 /\ (s.sticky \/ BigOdd(d.q))
                             THEN BigAdd(BigTrim(d.q), <<1>>) ELSE BigTrim(d.q),
                             Pow10(p), 0)
                   : d \in {BigDivC(s.m, 2)}}
                : s \in {BigShr(BigMul(x.m, Pow10(p)), -x.e - 1)}} : TRUE

----------------------------------------------------------------------------
(* Configuration: the module-level constants of the program *)

EMA_FAST == 20
EMA_SLOW == 50
RSI_PERIOD == 14
OBV_LOOKBACK == 14
VOLUME_SPIKE_MULT == R(3, 2)
INST_FLOW_WEIGHT == R(10, 100)
MTF_TIMEFRAMES == <<"1d", "4h", "1h">>
MTF_CONFIRM_THRESHOLD == 2
MTF_POSITIVE_PRICE_SCORE == 60
BTD_LOOKBACK_DAYS == 20
BTD_MIN_PULLBACK == R(2, 100)
BTD_MAX_PULLBACK == R(8, 100)
BTD_REQUIRE_DAILY_UPTREND == TRUE
TREND_LOOKBACK == 3

----------------------------------------------------------------------------
(* Buy signal helpers: threshold and history *)

\* a variant of get_buy_signal_from_score whose thresholds are exclusive
get_buy_signal_exclusive(score) ==
  IF RGt(score, I(80)) THEN "STRONG BUY"
  ELSE IF RGt(score, I(75)) THEN "BUY"
  ELSE IF RGt(score, I(65)) THEN "WATCHLIST"
  ELSE "NO TRADE"

get_buy_signal_from_score(score) ==
  IF RGe(score, I(80)) THEN "STRONG BUY"
  ELSE IF RGe(score, I(75)) THEN "BUY"
  ELSE IF RGe(score, I(65)) THEN "WATCHLIST"
  ELSE "NO TRADE"

\* a variant of RefineSignal that downgrades only a STRONG BUY when MTF is
\* not confirmed, and keeps a BUY
RefineSignalBuyKept(base, score, mtf, btd) ==
  IF base = "STRONG BUY" /\ ~mtf
  THEN IF btd /\ RGe(score, I(70)) THEN "BUY (BTD)" ELSE "WATCHLIST"
  ELSE IF base \in {"STRONG BUY", "BUY"} THEN base
  ELSE IF btd /\ RGe(score, I(70)) THEN "BUY (BTD)"
  ELSE IF btd /\ RGe(score, I(65)) THEN "WATCHLIST (BTD)"
  ELSE base

\* a variant of RefineSignal whose "WATCHLIST (BTD)" needs a score above 65
RefineSignalAbove65(base, score, mtf, btd) ==
  IF base \in {"STRONG BUY", "BUY"}
  THEN IF ~mtf
       THEN IF btd /\ RGe(score, I(70)) THEN "BUY (BTD)" ELSE "WATCHLIST"
       ELSE base
  ELSE IF btd /\ RGe(score, I(70)) THEN "BUY (BTD)"
       ELSE IF btd /\ RGt(score, I(65)) THEN "WATCHLIST (BTD)"
       ELSE base

\* a variant of RefineSignal that relabels a dip before it looks at MTF
RefineSignalDipFirst(base, score, mtf, btd) ==
  IF btd /\ RGe(score, I(70)) THEN "BUY (BTD)"
  ELSE IF btd /\ RGe(score, I(65)) THEN "WATCHLIST (BTD)"
  ELSE IF base \in {"STRONG BUY", "BUY"} /\ ~mtf THEN "WATCHLIST"
  ELSE base

\* a variant of RefineSignal that marks the dip on the base label
RefineSignalTagged(base, score, mtf, btd) ==
  IF base \in {"STRONG BUY", "BUY"}
  THEN IF ~mtf
       THEN IF btd /\ RGe(score, I(70)) THEN base \o " (BTD)" ELSE "WATCHLIST"
       ELSE base
  ELSE IF btd /\ RGe(score, I(70)) THEN "BUY (BTD)"
       ELSE IF btd /\ RGe(score, I(65)) THEN "WATCHLIST (BTD)"
       ELSE base

\* a variant of RefineSignal whose dip upgrade gives the plain label "BUY"
RefineSignalDipToBuy(base, score, mtf, btd) ==
  IF base \in {"STRONG BUY", "BUY"}
  THEN IF ~mtf
       THEN IF btd /\ RGe(score, I(70)) THEN "BUY (BTD)" ELSE "WATCHLIST"
       ELSE base
  ELSE IF btd /\ RGe(score, I(70)) THEN "BUY"
       ELSE IF btd /\ RGe(score, I(65)) THEN "WATCHLIST (BTD)"
       ELSE base

\* a variant of RefineSignal whose dip upgrade starts at a score of 60
RefineSignalDipFrom60(base, score, mtf, btd) ==
  IF base \in {"STRONG BUY", "BUY"}
  THEN IF ~mtf
       THEN IF btd /\ RGe(score, I(70)) THEN "BUY (BTD)" ELSE "WATCHLIST"
       ELSE base
  ELSE IF btd /\ RGe(score, I(70)) THEN "BUY (BTD)"
       ELSE IF btd /\ RGe(score, I(60)) THEN "WATCHLIST (BTD)"
       ELSE base

\* a variant of RefineSignal whose dip upgrade of a base below BUY needs the
\* MTF confirmation too
RefineSignalDipNeedsMtf(base, score, mtf, btd) ==
  IF base \in {"STRONG BUY", "BUY"}
  THEN IF ~mtf
       THEN IF btd /\ RGe(score, I(70)) THEN "BUY (BTD)" ELSE "WATCHLIST"
       ELSE base
  ELSE IF mtf /\ btd /\ RGe(score, I(70)) THEN "BUY (BTD)"
       ELSE IF mtf /\ btd /\ RGe(score, I(65)) THEN "WATCHLIST (BTD)"
       ELSE base

\* analyze_ticker, the refinement of the base label by MTF and BTD
RefineSignal(base, score, mtf, btd) ==
  IF base \in {"STRONG BUY", "BUY"}
  THEN IF ~mtf
       THEN IF base = "STRONG BUY"
            THEN IF ~mtf
                 THEN IF btd /\ RGe(score, I(70)) THEN "BUY (BTD)"
                      ELSE "WATCHLIST"
                 ELSE base
            ELSE IF btd /\ RGe(score, I(70)) THEN "BUY (BTD)"
                 ELSE "WATCHLIST"
       ELSE base
  ELSE IF btd /\ RGe(score, I(70)) THEN "BUY (BTD)"
       ELSE IF btd /\ RGe(score, I(65)) THEN "WATCHLIST (BTD)"
       ELSE base

\* analyze_ticker, the 'signal_strength' entry of the record
SignalStrength(score) ==
  IF RGe(score, I(80)) THEN "High"
  ELSE IF RGe(score, I(75)) THEN "Medium"
  ELSE IF RGe(score, I(65)) THEN "Low"
  ELSE "None"

\* append_history_row: one row more at the end of the file, which the first
\* append creates (the Datetime column is not modelled)
append_history_row(file, t, score, signal) ==
  [exists |-> TRUE,
   rows |-> Append(file.rows, [Ticker |-> t, Score |-> score, Signal |-> signal])]

\* The words pandas' read_csv takes for a missing value in any column
\* (pandas 2.0 and later; "None" was not among them before 2.0).
NaWords ==
  {"", "#N/A", "#N/A N/A", "#NA", "-1.#IND", "-1.#QNAN", "-NaN", "-nan",
   "1.#IND", "1.#QNAN", "<NA>", "N/A", "NA", "NULL", "NaN", "None", "n/a",
   "nan", "null"}

\* one cell of the Ticker column as pd.read_csv returns it: to_csv has
\* written the ticker as it is, and a cell that is one of the NA words comes
\* back as NaN, any other as the text
ReadTicker(cell) == [na |-> cell \in NaWords, text |-> cell]

\* pd.read_csv(history_file).  The scores written are numbers whose decimal
\* form read_csv parses back to the same number; the Signal column is text
\* that is no NA word.  (A Ticker column holding nothing but numerals or
\* nothing but TRUE/FALSE, which pandas would read as numbers or booleans,
\* is not among the files drawn.)
RECURSIVE read_csv_rows(_)
read_csv_rows(written) ==
  IF written = <<>> THEN <<>>
  ELSE <<[Ticker |-> ReadTicker(Head(written).Ticker),
          Score |-> Head(written).Score,
          Signal |-> Head(written).Signal]>> \o read_csv_rows(Tail(written))

read_csv(file) == read_csv_rows(file.rows)

\* df[df["Ticker"] == ticker]: NaN equals no ticker
RECURSIVE SelectTicker(_, _)
SelectTicker(entries, t) ==
  IF entries = <<>> THEN <<>>
  ELSE IF ~Head(entries).Ticker.na /\ Head(entries).Ticker.text = t
       THEN <<Head(entries)>> \o SelectTicker(Tail(entries), t)
       ELSE SelectTicker(Tail(entries), t)

\* df.tail(n)
TailN(s, n) ==
  IF Len(s) <= n THEN s ELSE SubSeq(s, Len(s) - n + 1, Len(s))

\* the sum that Series.mean() divides: the scores added one by one, from
\* the first, each addition rounding
RECURSIVE SumScores(_)
SumScores(entries) ==
  IF entries = <<>> THEN I(0)
  ELSE RAdd(SumScores(SubSeq(entries, 1, Len(entries) - 1)),
            entries[Len(entries)].Score)

\* get_score_trend: df_t, the last lookback rows read for the ticker
RecentRows(file, t, lookback) == TailN(SelectTicker(read_csv(file), t), lookback)

get_score_trend(file, t, lookback) ==
  IF ~file.exists THEN "N/A"
  ELSE LET df_t == RecentRows(file, t, lookback)
       IN  IF Len(df_t) < 2 THEN "N/A"
           ELSE LET prev == SubSeq(df_t, 1, Len(df_t) - 1)
                    prev_mean == RDiv(SumScores(prev), I(Len(prev)))
                    last == df_t[Len(df_t)].Score
                IN  IF RGt(last, prev_mean) THEN "RISING"
                    ELSE IF RLt(last, prev_mean) THEN "FALLING"
                    ELSE "FLAT"

----------------------------------------------------------------------------
(* Helpers: indicators.  A history frame is a function from column names    *)
(* to equally long sequences of integers; "Close" is always there, "Low"    *)
(* and "Volume" may be missing.                                             *)

Rows(h) == Len(h["Close"])

\* the weights of pandas' ewm(span=span, adjust=False): com = (span - 1)/2,
\* alpha = 1.0/(1.0 + com); at every bar the old average weighs
\* old_wt = 1.0 - alpha and the new value new_wt = alpha
EwmWeights(span) ==
  CHOOSE w \in
    UNION {{[old_wt |-> old_wt, new_wt |-> alpha, total |-> RAdd(old_wt, alpha)]
              : old_wt \in {RSub(I(1), alpha)}}
           : alpha \in {RDiv(I(1), RAdd(I(1), R(span - 1, 2)))}} : TRUE

\* the loop of pandas' ewm(...).mean() up to bar i, in floats: the first
\* value seeds the average; each later value cur gives
\* (old_wt * weighted + new_wt * cur) / (old_wt + new_wt), every operation
\* rounded, and leaves the average as it is when it equals cur
RECURSIVE Ewm(_, _, _)
Ewm(series, w, i) ==
  IF i = 1 THEN I(series[1])
  ELSE CHOOSE e \in
         {IF weighted = cur THEN weighted
          ELSE RDiv(RAdd(RMul(w.old_wt, weighted), RMul(w.new_wt, cur)), w.total)
            : weighted \in {Ewm(series, w, i - 1)}, cur \in {I(series[i])}} : TRUE

\* the weights of the two spans of the program, computed once
EwmTable == [span \in {EMA_FAST, EMA_SLOW} |-> EwmWeights(span)]

EwmWeightsOf(span) ==
  IF span \in {EMA_FAST, EMA_SLOW} THEN EwmTable[span] ELSE EwmWeights(span)

\* an EMA started from 0 in place of the first value of the series
ema_seeded_zero(series, span, i) ==
  CHOOSE e \in {Ewm(<<0>> \o series, w, i + 1) : w \in {EwmWeightsOf(span)}} : TRUE

\* ema(series, span).iloc[i]: series.ewm(span=span, adjust=False).mean()
ema(series, span, i) ==
  CHOOSE e \in {Ewm(series, w, i) : w \in {EwmWeightsOf(span)}} : TRUE

\* sum over the window of deltas ending at i of the up-moves (sign = 1) or of
\* the down-moves (sign = -1)
RECURSIVE MoveSum(_, _, _, _)
MoveSum(series, from, to, sign) ==
  IF from > to THEN 0
  ELSE LET delta == series[to] - series[to - 1]
           move == IF sign * delta > 0 THEN sign * delta ELSE 0
       IN  move + MoveSum(series, from, to - 1, sign)

\* rsi(series, period).iloc[i]: NaN until `period` deltas exist; ma_up and
\* ma_down are the rolling means (the sum of the window, divided by period),
\* rs their quotient, which pandas makes inf for x/0 and NaN for 0/0
rsi(series, period, i) ==
  IF i < period + 1 THEN NaN
  ELSE LET up == MoveSum(series, i - period + 1, i, 1)
           down == MoveSum(series, i - period + 1, i, -1)
           rs == IF down = 0 THEN (IF up = 0 THEN NaN ELSE Inf)
                 ELSE RDiv(R(up, period), R(down, period))
       IN  IF rs.k = "nan" THEN NaN
           ELSE IF rs.k = "inf" THEN I(100)
           ELSE RSub(I(100), RDiv(I(100), RAdd(I(1), rs)))

\* an OBV that counts the volume of a flat step as bought
RECURSIVE compute_obv_flat_adds(_, _)
compute_obv_flat_adds(df, i) ==
  IF i = 1 THEN 0
  ELSE LET prev == compute_obv_flat_adds(df, i - 1)
           c == df["Close"]
       IN  IF c[i] >= c[i - 1]
           THEN (IF "Volume" \in DOMAIN df THEN prev + df["Volume"][i] ELSE prev)
           ELSE (IF "Volume" \in DOMAIN df THEN prev - df["Volume"][i] ELSE prev)

\* compute_obv(df).iloc[i]
RECURSIVE compute_obv(_, _)
compute_obv(df, i) ==
  IF i = 1 THEN 0
  ELSE LET prev == compute_obv(df, i - 1)
           c == df["Close"]
       IN  IF c[i] > c[i - 1]
           THEN (IF "Volume" \in DOMAIN df THEN prev + df["Volume"][i] ELSE prev)
           ELSE IF c[i] < c[i - 1]
           THEN (IF "Volume" \in DOMAIN df THEN prev - df["Volume"][i] ELSE prev)
           ELSE prev

\* safe_div(a, b): a/b, or NaN when b is 0
safe_div(a, b) == IF b # 0 THEN R(a, b) ELSE NaN

RECURSIVE SumSeq(_, _, _)
SumSeq(s, from, to) ==
  IF from > to THEN 0 ELSE s[to] + SumSeq(s, from, to - 1)

\* np.polyfit(arange(N), y, 1)[0] for the last N values of the OBV series:
\* the least-squares slope, sum((x - mean x) * y) / sum((x - mean x)^2)
RECURSIVE SlopeNum(_, _, _, _)
SlopeNum(df, first, N, j) ==
  IF j = N THEN 0
  ELSE (2 * j - (N - 1)) * compute_obv(df, first + j) + SlopeNum(df, first, N, j + 1)

RECURSIVE SlopeDen(_, _)
SlopeDen(N, j) ==
  IF j = N THEN 0
  ELSE (2 * j - (N - 1)) * (2 * j - (N - 1)) + SlopeDen(N, j + 1)

ObvSlope(df, N) ==
  R(2 * SlopeNum(df, Rows(df) - N + 1, N, 0), SlopeDen(N, 0))

----------------------------------------------------------------------------
(* Technical metrics per timeframe *)

\* compute_technical_metrics_from_hist raises (close.iloc[-1] on an empty
\* series) exactly when the frame has no row
TechRaises(h) == Rows(h) = 0

compute_technical_metrics_from_hist(h) ==
  CHOOSE t \in
    UNION {UNION {{[last_close |-> I(close[n]),
                    ema_fast |-> ema_fast,
                    ema_slow |-> ema_slow,
                    ema_cross |-> IF RGt(ema_fast, ema_slow) THEN 1 ELSE 0,
                    price_above_ema_slow |->
                      IF RGt(I(close[n]), ema_slow) THEN 1 ELSE 0,
                    rsi |-> r_last,
                    rsi_rising |-> IF n >= 3 /\ IsFinite(r_last) /\ IsFinite(r_3)
                                      /\ RGt(r_last, r_3) THEN 1 ELSE 0,
                    higher_lows_3 |-> IF k >= 3 /\ lows[k] > lows[k - 1]
                                         /\ lows[k - 1] > lows[k - 2] THEN 1 ELSE 0,
                    obv_latest |-> I(compute_obv(h, n)),
                    obv_slope |-> m,
                    obv_slope_pos |-> IF RGt(m, I(0)) THEN 1 ELSE 0,
                    avg_vol_30 |-> avg30,
                    today_vol |-> I(vol[n]),
                    vol_spike_up |->
                      IF RGt(I(vol[n]), RMul(VOLUME_SPIKE_MULT, avg30))
                         /\ n >= 2 /\ close[n] > close[n - 1] THEN 1 ELSE 0]
                     : ema_fast \in {ema(close, EMA_FAST, n)},
                       ema_slow \in {ema(close, EMA_SLOW, n)},
                       r_last \in {rsi(close, RSI_PERIOD, n)},
                       r_3 \in {rsi(close, RSI_PERIOD, n - 2)},
                       k \in {Len(lows)},
                       m \in {IF n >= OBV_LOOKBACK THEN ObvSlope(h, OBV_LOOKBACK)
                              ELSE I(0)},
                       avg30 \in {R(SumSeq(vol, n - (IF n < 30 THEN n ELSE 30) + 1, n),
                                    IF n < 30 THEN n ELSE 30)}}
                  : n \in {Len(close)},
                    lows \in {TailN(low, 5)},
                    vol \in {IF "Volume" \in DOMAIN h THEN h["Volume"]
                             ELSE [i \in 1..Len(close) |-> 0]}}
           : close \in {h["Close"]},
             low \in {IF "Low" \in DOMAIN h THEN h["Low"] ELSE h["Close"]}} : TRUE

\* the frames the provider of a batch run holds
ListFrames ==
  {[Close |-> <<80, 100, 98>>, Low |-> <<79, 97, 96>>, Volume |-> <<10, 10, 10>>],
   [Close |-> <<80, 90, 100>>, Low |-> <<79, 89, 99>>, Volume |-> <<10, 10, 40>>]}

----------------------------------------------------------------------------
(* Scoring functions *)

\* the RSI term with a rising RSI multiplied by 1.2 and not capped at 1
RsiScoreUncapped(tech) ==
  LET r == tech.rsi
      base == IF RLt(r, I(30)) THEN I(0)
              ELSE IF RGt(r, I(80)) THEN R(2, 10)
              ELSE RMax(I(0), RSub(I(1), RDiv(RAbs(RSub(r, I(60))), I(30))))
  IN  IF IsFinite(r)
      THEN (IF tech.rsi_rising = 1 THEN RMul(base, R(12, 10)) ELSE base)
      ELSE R(1, 2)

\* the RSI term of score_price_momentum_from_tech, 0..1
RsiScore(tech) ==
  LET r == tech.rsi
      base == IF RLt(r, I(30)) THEN I(0)
              ELSE IF RGt(r, I(80)) THEN R(2, 10)
              ELSE RMax(I(0), RSub(I(1), RDiv(RAbs(RSub(r, I(60))), I(30))))
  IN  IF IsFinite(r)
      THEN (IF tech.rsi_rising = 1 THEN RMin(I(1), RMul(base, R(12, 10))) ELSE base)
      ELSE R(1, 2)

score_price_momentum_from_tech(tech) ==
  LET w_ema == R(35, 100)
      w_price == R(25, 100)
      w_rsi == R(20, 100)
      w_hl == R(20, 100)
      s1 == RMul(w_ema, IF tech.ema_cross = 1 THEN I(1) ELSE I(0))
      s2 == RMul(w_price, IF tech.price_above_ema_slow = 1 THEN I(1) ELSE I(0))
      s3 == RMul(w_rsi, RsiScore(tech))
      s4 == RMul(w_hl, IF tech.higher_lows_3 = 1 THEN I(1) ELSE I(0))
  IN  RMul(RAdd(RAdd(RAdd(s1, s2), s3), s4), I(100))

\* compute_options_metrics.  The provider answers nothing ("none": no expiry),
\* fails ("fail": t.options or t.option_chain raises) or gives the nearest
\* chain, here by its four sums.
compute_options_metrics(resp) ==
  IF resp.kind = "chain"
  THEN [opt_nearest_expiry |-> "nearest",
        call_vol_sum |-> I(resp.cv),
        put_vol_sum |-> I(resp.pv),
        call_oi_sum |-> I(resp.coi),
        put_oi_sum |-> I(resp.poi),
        call_put_vol_ratio |-> safe_div(resp.cv, resp.pv),
        call_put_oi_ratio |-> safe_div(resp.coi, resp.poi)]
  ELSE [opt_nearest_expiry |-> "None",
        call_vol_sum |-> NaN,
        put_vol_sum |-> NaN,
        call_oi_sum |-> NaN,
        put_oi_sum |-> NaN,
        call_put_vol_ratio |-> NaN,
        call_put_oi_ratio |-> NaN]

\* a ratio term that counts an unavailable ratio as 0
RatioTermZero(ratio) ==
  IF IsFinite(ratio) THEN Clamp01(RDiv(ratio, I(2))) ELSE I(0)

\* one call/put ratio term of score_volume_flow_from_tech_opt
RatioTerm(ratio) ==
  IF IsFinite(ratio) THEN Clamp01(RDiv(ratio, I(2))) ELSE R(1, 2)

\* the flow scorer reading the option ratios of an INDEX as well
score_volume_flow_index_optioned(tech, o, cls) ==
  LET w_vol_spike == R(30, 100)
      w_obv == R(30, 100)
      w_cp_vol == R(20, 100)
      w_cp_oi == R(20, 100)
      s1 == RMul(w_vol_spike, IF tech.vol_spike_up = 1 THEN I(1) ELSE I(0))
      s2 == RMul(w_obv, IF tech.obv_slope_pos = 1 THEN I(1) ELSE I(0))
      neutral == cls \in {"CURRENCY", "COMMODITY", "CRYPTOCURRENCY"}
      s3 == RMul(w_cp_vol, IF neutral THEN R(1, 2) ELSE RatioTerm(o.call_put_vol_ratio))
      s4 == RMul(w_cp_oi, IF neutral THEN R(1, 2) ELSE RatioTerm(o.call_put_oi_ratio))
      total == RAdd(RAdd(RAdd(w_vol_spike, w_obv), w_cp_vol), w_cp_oi)
  IN  RMul(RDiv(RAdd(RAdd(RAdd(s1, s2), s3), s4), total), I(100))

score_volume_flow_from_tech_opt(tech, o, cls) ==
  LET w_vol_spike == R(30, 100)
      w_obv == R(30, 100)
      w_cp_vol == R(20, 100)
      w_cp_oi == R(20, 100)
      s1 == RMul(w_vol_spike, IF tech.vol_spike_up = 1 THEN I(1) ELSE I(0))
      s2 == RMul(w_obv, IF tech.obv_slope_pos = 1 THEN I(1) ELSE I(0))
      neutral == cls \in {"INDEX", "CURRENCY", "COMMODITY", "CRYPTOCURRENCY"}
      s3 == RMul(w_cp_vol, IF neutral THEN R(1, 2) ELSE RatioTerm(o.call_put_vol_ratio))
      s4 == RMul(w_cp_oi, IF neutral THEN R(1, 2) ELSE RatioTerm(o.call_put_oi_ratio))
      total == RAdd(RAdd(RAdd(w_vol_spike, w_obv), w_cp_vol), w_cp_oi)
  IN  RMul(RDiv(RAdd(RAdd(RAdd(s1, s2), s3), s4), total), I(100))

\* score_fundamentals raises when info holds None for a ratio (np.isfinite of
\* None is a TypeError)
FundRaises(fi) == fi.shortRatio.k = "none" \/ fi.recommendationMean.k = "none"

\* score_fundamentals.  fi: the provider's quarterly earnings (a sequence) and
\* the two info fields, each a number or NaN when missing.
score_fundamentals(fi) ==
  LET vals == fi.earnings
      m == Len(vals)
      g == R(vals[m] - vals[m - 1], Abs(vals[m - 1]))
      earnings_score == IF m >= 2 /\ vals[m - 1] # 0
                        THEN Clamp01(RDiv(RAdd(g, I(1)), I(2)))
                        ELSE R(1, 2)
      short_score == IF IsFinite(fi.shortRatio)
                     THEN Clamp01(RSub(I(1), RDiv(RSub(fi.shortRatio, R(5, 100)), R(25, 100))))
                     ELSE R(1, 2)
      rec_score == IF IsFinite(fi.recommendationMean)
                   THEN Clamp01(RDiv(RSub(I(5), fi.recommendationMean), I(4)))
                   ELSE R(1, 2)
      raw == RAdd(RAdd(RMul(R(5, 10), earnings_score), RMul(R(3, 10), rec_score)),
                  RMul(R(2, 10), short_score))
  IN  RMul(Clamp01(raw), I(100))

institutional_flow_proxy(tech, o) ==
  LET cpv == o.call_put_vol_ratio
      cpv_score == IF IsFinite(cpv) THEN Clamp01(RDiv(cpv, I(2))) ELSE R(1, 2)
      avg30 == tech.avg_vol_30
      today == tech.today_vol
      vol_score == IF RGt(avg30, I(0))
                   THEN Clamp01(RAdd(RDiv(RSub(RDiv(today, avg30), I(1)), I(2)), R(1, 2)))
                   ELSE R(1, 2)
      obv_pos == IF tech.obv_slope_pos = 1 THEN I(1) ELSE I(0)
      raw == RAdd(RAdd(RMul(R(4, 10), cpv_score), RMul(R(4, 10), vol_score)),
                  RMul(R(2, 10), obv_pos))
  IN  RMul(raw, I(100))

----------------------------------------------------------------------------
(* Asset classes and weights *)

AssetClasses ==
  {"EQUITY", "ETF", "INDEX", "COMMODITY", "CRYPTOCURRENCY", "CURRENCY", "UNKNOWN"}

SCORES_CONFIG ==
  [c \in AssetClasses |->
     CASE c = "EQUITY" -> [price |-> R(40, 100), flow |-> R(35, 100), fund |-> R(25, 100)]
       [] c = "ETF" -> [price |-> R(45, 100), flow |-> R(45, 100), fund |-> R(10, 100)]
       [] c = "INDEX" -> [price |-> R(70, 100), flow |-> R(0, 100), fund |-> R(30, 100)]
       [] c = "COMMODITY" -> [price |-> R(80, 100), flow |-> R(20, 100), fund |-> R(0, 100)]
       [] c = "CRYPTOCURRENCY" -> [price |-> R(75, 100), flow |-> R(25, 100), fund |-> R(0, 100)]
       [] c = "CURRENCY" -> [price |-> R(80, 100), flow |-> R(20, 100), fund |-> R(0, 100)]
       [] OTHER -> [price |-> R(40, 100), flow |-> R(35, 100), fund |-> R(25, 100)]]

\* SCORES_CONFIG.get(asset_class, SCORES_CONFIG['UNKNOWN'])
ConfigOf(cls) == SCORES_CONFIG[IF cls \in AssetClasses THEN cls ELSE "UNKNOWN"]

\* detect_sector: fixed for four classes, else what the provider's info names
detect_sector(cls, named) ==
  CASE cls = "INDEX" -> "Index"
    [] cls = "COMMODITY" -> "Commodities"
    [] cls = "CRYPTOCURRENCY" -> "Digital Assets"
    [] cls = "CURRENCY" -> "Forex"
    [] OTHER -> named

\* a variant of Weights64 that leaves the base weights as they are
Weights64Unscaled(cls) ==
  CHOOSE z \in
    {[p_w |-> base.price, f_w |-> base.flow, fund_w |-> base.fund,
      inst_w |-> INST_FLOW_WEIGHT]
       : base \in {ConfigOf(cls)}} : TRUE

\* analyze_ticker: the combined weights including INST_FLOW_WEIGHT
Weights64(cls) ==
  CHOOSE z \in
    UNION {{IF F64Positive(base_total)
            THEN [p_w |-> F64Mul(F64Div(base.price, base_total), remaining),
                  f_w |-> F64Mul(F64Div(base.flow, base_total), remaining),
                  fund_w |-> F64Mul(F64Div(base.fund, base_total), remaining),
                  inst_w |-> inst_w]
            ELSE [p_w |-> F64Mul(remaining, R(6, 10)),
                  f_w |-> F64Mul(remaining, R(4, 10)),
                  fund_w |-> F64Zero,
                  inst_w |-> inst_w]
              : base_total \in {F64Add(F64Add(base.price, base.flow), base.fund)},
                remaining \in {F64Max0(F64Sub(F64Int(1), inst_w))}}
           : base \in {ConfigOf(cls)},
             inst_w \in {INST_FLOW_WEIGHT}} : TRUE

\* the weights of each class of the table, computed once; a class that is
\* not in the table has those of UNKNOWN
WeightsTable == [c \in AssetClasses |-> Weights64(c)]

WeightsOf(cls) == WeightsTable[IF cls \in AssetClasses THEN cls ELSE "UNKNOWN"]

\* 1.0 - INST_FLOW_WEIGHT, floored at 0.0
Remaining64 == F64Max0(F64Sub(F64Int(1), INST_FLOW_WEIGHT))

\* the subscore blended and reported as it came, unavailable or not
OrNeutralKept(x) == x

\* "x if not (x is None or np.isnan(x)) else 50.0"
OrNeutral(x) == IF IsMissing(x) THEN I(50) ELSE x

\* analyze_ticker: final_score, from the weights w
BlendOf(w, price, flow, fund, inst) ==
  RAdd(RAdd(RAdd(RMul(w.p_w, price), RMul(w.f_w, flow)),
            RMul(w.fund_w, OrNeutral(fund))),
       RMul(w.inst_w, OrNeutral(inst)))

\* analyze_ticker: final_score
Blend(cls, price, flow, fund, inst) ==
  BlendOf(WeightsOf(cls), price, flow, fund, inst)

----------------------------------------------------------------------------
(* The frames the providers answer with, and what is computed from them *)

CloseOnly(cs) == [c \in {"Close"} |-> cs]

Bars(cs, ls, vs) ==
  [c \in {"Close", "Low", "Volume"} |->
     IF c = "Close" THEN cs ELSE IF c = "Low" THEN ls ELSE vs]

\* a few full frames for the whole analysis
Catalogue ==
  { Bars(<<80, 100, 98>>, <<79, 97, 96>>, <<10, 10, 10>>),
    Bars(<<80, 90, 100>>, <<79, 89, 99>>, <<10, 10, 40>>),
    Bars(<<100, 98>>, <<99, 97>>, <<10, 10>>),
    Bars(<<80, 100, 90>>, <<79, 80, 81>>, <<10, 10, 10>>),
    Bars(<<>>, <<>>, <<>>) }

MaxBars == 3
MinScore == 55
MaxScore == 90

Prices == {80, 90, 92, 98, 99, 100}

SeqsUpTo(S, n) == UNION {[1..m -> S] : m \in 0..n}

NoHist == CloseOnly(<<>>)

\* 22 bars in an uptrend, 2% under the high of the last 20, with a higher
\* close 21 bars back
SpikeOutside == CloseOnly(<<80, 200>> \o [i \in 1..18 |-> 90] \o <<100, 98>>)

\* 21 bars in an uptrend, 2% under the last bar but one, with a higher close
\* 20 bars back
SpikeInside == CloseOnly(<<80, 110>> \o [i \in 1..17 |-> 90] \o <<100, 98>>)

\* 18 bars: a jump, then a slide of 16 bars above both averages (RSI 0)
SlideAfterJump == CloseOnly(<<10, 200>> \o [i \in 1..16 |-> 200 - i])

\* closes below zero, rising
BelowZero == CloseOnly(<<-10, -5>>)

\* three bars whose EMAs of both spans are 1238/9 as fractions, and as floats
\* 137.55555555555557 for the fast span, 137.55555555555554 for the slow
EmaTie == CloseOnly(<<138, 19, 241>>)

\* every close series of up to MaxBars bars over Prices (no Low, no Volume
\* column), the empty frame included (what get_history returns after dropna
\* when every close was missing), and the five frames above
Frames ==
  {CloseOnly(cs) : cs \in SeqsUpTo(Prices, MaxBars)}
    \cup {SpikeOutside, SpikeInside, SlideAfterJump, BelowZero, EmaTie}

\* What the program computes from one of these frames is computed once
\* and looked up wherever the frame comes again; from any other frame it is
\* computed where it is asked for.
AnalysisFrames == {h \in Catalogue \cup ListFrames : ~TechRaises(h)}

KnownFrames == {h \in Catalogue \cup ListFrames \cup Frames : ~TechRaises(h)}

Technicals == [h \in KnownFrames |-> compute_technical_metrics_from_hist(h)]

FramePrices == [h \in KnownFrames |-> score_price_momentum_from_tech(Technicals[h])]

\* score_price_momentum_from_tech(compute_technical_metrics_from_hist(h))
PriceOfFrame(h) ==
  IF h \in KnownFrames THEN FramePrices[h]
  ELSE score_price_momentum_from_tech(compute_technical_metrics_from_hist(h))

----------------------------------------------------------------------------
(* Multi-timeframe confirmation and buy-the-dip *)

NoDetails == [t \in {} |-> NaN]

\* details[tf] = v
SetDetail(d, tf, v) ==
  [t \in DOMAIN d \cup {tf} |-> IF t = tf THEN v ELSE d[t]]

\* a variant of MtfPass that keeps the score of a timeframe rounded to two
\* decimals, as the record keeps the subscores
MtfPassRounded(pos, det, tf, resp) ==
  IF resp.fail \/ TechRaises(resp.frame)
  THEN [positives |-> pos, details |-> SetDetail(det, tf, NaN)]
  ELSE CHOOSE p \in
         {[positives |-> IF RGe(price_score, I(MTF_POSITIVE_PRICE_SCORE))
                         THEN pos + 1 ELSE pos,
           details |-> SetDetail(det, tf, Round(price_score, 2))]
            : price_score \in {PriceOfFrame(resp.frame)}} : TRUE

\* one pass of the loop of compute_mtf_confirmation: resp is what
\* get_history gave for the timeframe, a frame or a failure
MtfPass(pos, det, tf, resp) ==
  IF resp.fail \/ TechRaises(resp.frame)
  THEN [positives |-> pos, details |-> SetDetail(det, tf, NaN)]
  ELSE CHOOSE p \in
         {[positives |-> IF RGe(price_score, I(MTF_POSITIVE_PRICE_SCORE))
                         THEN pos + 1 ELSE pos,
           details |-> SetDetail(det, tf, price_score)]
            : price_score \in {PriceOfFrame(resp.frame)}} : TRUE

RECURSIVE MaxSeq(_, _, _)
MaxSeq(s, from, to) ==
  IF from = to THEN s[to]
  ELSE LET m == MaxSeq(s, from, to - 1) IN IF s[to] > m THEN s[to] ELSE m

\* a variant of BuyTheDip that takes the high of the whole series
BuyTheDipAllBars(h) ==
  LET tech == compute_technical_metrics_from_hist(h)
      last_close == tech.last_close
      recent_high == I(MaxSeq(h["Close"], 1, Rows(h)))
      pullback == IF RGt(recent_high, I(0))
                  THEN RDiv(RSub(recent_high, last_close), recent_high)
                  ELSE I(0)
      is_btd == RGe(pullback, BTD_MIN_PULLBACK) /\ RLe(pullback, BTD_MAX_PULLBACK)
  IN  IF BTD_REQUIRE_DAILY_UPTREND
         /\ ~(tech.ema_cross = 1 /\ tech.price_above_ema_slow = 1)
      THEN [flag |-> FALSE, pullback |-> None, recent_high |-> None]
      ELSE [flag |-> is_btd, pullback |-> Round(pullback, 4), recent_high |-> recent_high]

\* a variant of BuyTheDip whose uptrend is the EMA cross alone
BuyTheDipCrossOnly(h) ==
  LET tech == compute_technical_metrics_from_hist(h)
      last_close == tech.last_close
      n == Rows(h)
      first == IF n >= BTD_LOOKBACK_DAYS THEN n - BTD_LOOKBACK_DAYS + 1 ELSE 1
      recent_high == I(MaxSeq(h["Close"], first, n))
      pullback == IF RGt(recent_high, I(0))
                  THEN RDiv(RSub(recent_high, last_close), recent_high)
                  ELSE I(0)
      is_btd == RGe(pullback, BTD_MIN_PULLBACK) /\ RLe(pullback, BTD_MAX_PULLBACK)
  IN  IF BTD_REQUIRE_DAILY_UPTREND /\ ~(tech.ema_cross = 1)
      THEN [flag |-> FALSE, pullback |-> None, recent_high |-> None]
      ELSE [flag |-> is_btd, pullback |-> Round(pullback, 4), recent_high |-> recent_high]

\* detect_buy_the_dip after a successful fetch of a frame with rows
BuyTheDip(h) ==
  CHOOSE b \in
    UNION {UNION {{IF BTD_REQUIRE_DAILY_UPTREND
                      /\ ~(tech.ema_cross = 1 /\ tech.price_above_ema_slow = 1)
                   THEN [flag |-> FALSE, pullback |-> None, recent_high |-> None]
                   ELSE [flag |-> RGe(pullback, BTD_MIN_PULLBACK)
                                    /\ RLe(pullback, BTD_MAX_PULLBACK),
                         pullback |-> Round(pullback, 4),
                         recent_high |-> recent_high]
                    : pullback \in {IF RGt(recent_high, I(0))
                                    THEN RDiv(RSub(recent_high, tech.last_close),
                                              recent_high)
                                    ELSE I(0)}}
                  : recent_high \in
                      {I(MaxSeq(h["Close"],
                                IF Rows(h) >= BTD_LOOKBACK_DAYS
                                THEN Rows(h) - BTD_LOOKBACK_DAYS + 1 ELSE 1,
                                Rows(h)))}}
           : tech \in {compute_technical_metrics_from_hist(h)}} : TRUE

Dips == [h \in KnownFrames |-> BuyTheDip(h)]

DipOfFrame(h) == IF h \in KnownFrames THEN Dips[h] ELSE BuyTheDip(h)

----------------------------------------------------------------------------
(* What the providers can answer: the bounded inputs of the model *)

\* get_history: it raises, or returns a frame
HistResponses(cat) ==
  {[fail |-> TRUE, frame |-> NoHist]} \cup {[fail |-> FALSE, frame |-> f] : f \in cat}

\* the answers get_history can give from the catalogue, and from the frames
CatalogueResponses == HistResponses(Catalogue)

FrameResponses == HistResponses(Frames)

Chain(cv, pv, coi, poi) ==
  [kind |-> "chain", cv |-> cv, pv |-> pv, coi |-> coi, poi |-> poi]

NoExpiry == [kind |-> "none", cv |-> 0, pv |-> 0, coi |-> 0, poi |-> 0]

OptResponses ==
  { NoExpiry,
    [kind |-> "fail", cv |-> 0, pv |-> 0, coi |-> 0, poi |-> 0],
    Chain(4, 1, 4, 1),
    Chain(1, 0, 1, 2) }

NoFundamentals == [earnings |-> <<>>, shortRatio |-> NaN, recommendationMean |-> NaN]

FundInputs ==
  { NoFundamentals,
    [earnings |-> <<1, 2>>, shortRatio |-> R(5, 100), recommendationMean |-> I(1)],
    [earnings |-> <<2, 1>>, shortRatio |-> None, recommendationMean |-> I(3)] }

InfoSectors == {"Technology"}

Tickers == {"AAA"}

\* final scores in thousandths around the label thresholds
ScoreGrid ==
  {R(1000 * w + f, 1000) : w \in MinScore..MaxScore, f \in {0, 1, 999}}

----------------------------------------------------------------------------
(* analyze_ticker *)

NoTech == [unset |-> TRUE]
NoWeights == [unset |-> TRUE]
NoOpt == [unset |-> TRUE]

\* rec.update(f)
Update(r, f) ==
  [x \in DOMAIN r \cup DOMAIN f |-> IF x \in DOMAIN f THEN f[x] ELSE r[x]]

\* the subscores with the fundamentals scorer called for every class
SubScoresAlways(cls, tech, o, fi) ==
  [tech_daily |-> tech,
   opt |-> o,
   price_sub |-> score_price_momentum_from_tech(tech),
   flow_sub |-> score_volume_flow_from_tech_opt(tech, o, cls),
   fund_sub |-> IF FundRaises(fi) THEN NaN ELSE score_fundamentals(fi),
   inst_proxy |-> IF RGt(INST_FLOW_WEIGHT, I(0))
                  THEN institutional_flow_proxy(tech, o) ELSE NaN,
   called |-> {"score_fundamentals"}]

\* analyze_ticker: the four subscores, from the daily technicals and the
\* options metrics
SubScores(cls, tech, o, fi) ==
  CHOOSE s \in
    {[tech_daily |-> tech,
      opt |-> o,
      price_sub |-> score_price_momentum_from_tech(tech),
      flow_sub |-> score_volume_flow_from_tech_opt(tech, o, cls),
      fund_sub |-> IF funded
                   THEN (IF FundRaises(fi) THEN NaN ELSE score_fundamentals(fi))
                   ELSE NaN,
      inst_proxy |-> IF RGt(INST_FLOW_WEIGHT, I(0))
                     THEN institutional_flow_proxy(tech, o) ELSE NaN,
      called |-> IF funded THEN {"score_fundamentals"} ELSE {}]
       : funded \in {RGt(ConfigOf(cls).fund, I(0))}} : TRUE

WithFinal(cls, s) ==
  CHOOSE r \in
    {[tech_daily |-> s.tech_daily, opt |-> s.opt, price_sub |-> s.price_sub,
      flow_sub |-> s.flow_sub, fund_sub |-> s.fund_sub, inst_proxy |-> s.inst_proxy,
      final_score |-> BlendOf(w, s.price_sub, s.flow_sub, s.fund_sub, s.inst_proxy),
      called |-> s.called,
      weights |-> w]
       : w \in {WeightsOf(cls)}} : TRUE

\* the daily technicals, the options metrics, the four subscores and the
\* final score of analyze_ticker, from what the providers answered
Scored(cls, h, oresp, fi) ==
  CHOOSE r \in {WithFinal(cls, s) :
                  s \in {SubScores(cls, t, o, fi) :
                           t \in {compute_technical_metrics_from_hist(h)},
                           o \in {compute_options_metrics(oresp)}}} : TRUE

\* Scored for the frames of AnalysisFrames and the answers of OptResponses and
\* FundInputs, computed once
Analyses ==
  [x \in {<<cls, h, oresp, fi>> : cls \in AssetClasses, h \in AnalysisFrames,
                                 oresp \in OptResponses, fi \in FundInputs} |->
     Scored(x[1], x[2], x[3], x[4])]

ScoredOf(cls, h, oresp, fi) ==
  CHOOSE s \in
    {IF <<cls, h, oresp, fi>> \in DOMAIN known THEN known[<<cls, h, oresp, fi>>]
     ELSE Scored(cls, h, oresp, fi)
       : known \in {Analyses}} : TRUE

\* the scores of Analyses, with the neutral 50.0 that stands in for a missing
\* one
AnalysedScores ==
  UNION {{s.price_sub, s.flow_sub, s.fund_sub, s.inst_proxy, s.final_score, I(50)}
           : s \in UNION {{known[x] : x \in DOMAIN known} : known \in {Analyses}}}

\* round(x, 2) of each of them, computed once
RoundedScores == [x \in AnalysedScores |-> Round(x, 2)]

\* round(x, 2), looked up in known when x is one of its scores
RoundedScore(known, x) == IF x \in DOMAIN known THEN known[x] ELSE Round(x, 2)

\* the locals of analyze_ticker that no statement has assigned yet
Unassigned ==
  /\ tech_daily = NoTech /\ opt = NoOpt
  /\ price_sub = NaN /\ flow_sub = NaN /\ fund_sub = NaN /\ inst_proxy = NaN
  /\ final_score = NaN
  /\ weights = NoWeights

MtfUnassigned ==
  /\ tf_i = 1 /\ positives = 0 /\ details = NoDetails
  /\ mtf_count = 0 /\ mtf_confirm = FALSE /\ mtf_details = NoDetails

BtdUnassigned ==
  /\ hist = NoHist
  /\ btd_flag = FALSE /\ btd_pullback = NaN /\ btd_recent_high = NaN

SignalUnassigned == buy_signal = "unset" /\ score_trend = "unset"

NoFile == [exists |-> FALSE, rows |-> <<>>]

\* analyze_ticker called once, outside run_and_save
Single ==
  /\ tickers = <<ticker>> /\ t_i = 1 /\ rows = <<>> /\ df_sorted = <<>>
  /\ provider = <<>>
  /\ calls = <<>>

Init ==
  /\ pc = "start"
  /\ ticker \in Tickers
  /\ asset_class = "unset"
  /\ Unassigned /\ MtfUnassigned /\ BtdUnassigned /\ SignalUnassigned
  /\ history_file = NoFile
  /\ rec = [x \in {"ticker"} |-> ticker]
  /\ caught = {}
  /\ invoked = {}
  /\ Single

\* the except clause of analyze_ticker
Fails(msg) ==
  /\ rec' = Update(rec, [x \in {"error"} |-> msg])
  /\ pc' = "done"

\* rec after "rec['asset_class'] = ...; rec['sector'] = ..."
Classified(r, cls, named) ==
  Update(r, [x \in {"asset_class", "sector"} |->
               IF x = "asset_class" THEN cls ELSE detect_sector(cls, named)])

\* a variant of AnalyzeStep whose failing call leaves a row in the history log
AnalyzeStepLogsFailure(classes, sectors, resps, oresps, funds) ==
  /\ pc = "start"
  /\ \E cls \in classes, named \in sectors, resp \in resps,
        oresp \in oresps, fi \in funds :
       /\ asset_class' = cls
       /\ IF resp.fail \/ TechRaises(resp.frame)
          THEN /\ rec' = Update(Classified(rec, cls, named),
                                [x \in {"error"} |->
                                   IF resp.fail THEN "No history" ELSE "IndexError"])
               /\ history_file' = append_history_row(history_file, ticker, I(0), "NO TRADE")
               /\ pc' = "done"
               /\ UNCHANGED <<tech_daily, opt, price_sub, flow_sub, fund_sub,
                              inst_proxy, final_score, invoked, weights>>
          ELSE \E S \in {ScoredOf(cls, resp.frame, oresp, fi)} :
                   /\ tech_daily' = S.tech_daily
                   /\ opt' = S.opt
                   /\ price_sub' = S.price_sub
                   /\ flow_sub' = S.flow_sub
                   /\ fund_sub' = S.fund_sub
                   /\ inst_proxy' = S.inst_proxy
                   /\ final_score' = S.final_score
                   /\ invoked' = invoked \cup S.called
                   /\ weights' = S.weights
                   /\ rec' = Classified(rec, cls, named)
                   /\ pc' = "mtf"
                   /\ UNCHANGED history_file
  /\ UNCHANGED <<ticker, tf_i, positives, details, mtf_count, mtf_confirm,
                 mtf_details, hist, btd_flag, btd_pullback, btd_recent_high,
                 buy_signal, score_trend, caught>>
  /\ UNCHANGED batch

\* analyze_ticker up to final_score, the provider answering with one of
\* classes, sectors, resps (the daily history), oresps (the option chain)
\* and funds (the fundamentals)
AnalyzeStep(classes, sectors, resps, oresps, funds) ==
  /\ pc = "start"
  /\ \E cls \in classes, named \in sectors, resp \in resps,
        oresp \in oresps, fi \in funds :
       /\ asset_class' = cls
       /\ IF resp.fail \/ TechRaises(resp.frame)
          THEN /\ rec' = Update(Classified(rec, cls, named),
                                [x \in {"error"} |->
                                   IF resp.fail THEN "No history" ELSE "IndexError"])
               /\ pc' = "done"
               /\ UNCHANGED <<tech_daily, opt, price_sub, flow_sub, fund_sub,
                              inst_proxy, final_score, invoked, weights>>
          ELSE \E S \in {ScoredOf(cls, resp.frame, oresp, fi)} :
                   /\ tech_daily' = S.tech_daily
                   /\ opt' = S.opt
                   /\ price_sub' = S.price_sub
                   /\ flow_sub' = S.flow_sub
                   /\ fund_sub' = S.fund_sub
                   /\ inst_proxy' = S.inst_proxy
                   /\ final_score' = S.final_score
                   /\ invoked' = invoked \cup S.called
                   /\ weights' = S.weights
                   /\ rec' = Classified(rec, cls, named)
                   /\ pc' = "mtf"
  /\ UNCHANGED <<ticker, tf_i, positives, details, mtf_count, mtf_confirm,
                 mtf_details, hist, btd_flag, btd_pullback, btd_recent_high,
                 buy_signal, score_trend, history_file, caught>>
  /\ UNCHANGED batch

AnalyzeStart(resps) ==
  AnalyzeStep(AssetClasses, InfoSectors, resps, OptResponses, FundInputs)

\* a variant of MtfStep in which a timeframe that fails ends the loop
MtfStepBreaks(resps) ==
  /\ pc = "mtf"
  /\ UNCHANGED <<invoked, weights, batch>>
  /\ tf_i <= Len(MTF_TIMEFRAMES)
  /\ \E resp \in resps :
       LET p == MtfPass(positives, details, MTF_TIMEFRAMES[tf_i], resp)
           raised == resp.fail \/ TechRaises(resp.frame)
       IN  /\ positives' = p.positives
           /\ details' = p.details
           /\ caught' = IF raised THEN caught \cup {MTF_TIMEFRAMES[tf_i]} ELSE caught
           /\ tf_i' = IF raised THEN Len(MTF_TIMEFRAMES) + 1 ELSE tf_i + 1
  /\ UNCHANGED <<pc, ticker, asset_class, tech_daily, opt, price_sub, flow_sub,
                 fund_sub, inst_proxy, final_score, mtf_count, mtf_confirm,
                 mtf_details, hist, btd_flag, btd_pullback, btd_recent_high,
                 buy_signal, score_trend, history_file, rec>>

\* compute_mtf_confirmation: one timeframe of the loop, get_history
\* answering with one of resps
MtfStep(resps) ==
  /\ pc = "mtf"
  /\ UNCHANGED <<invoked, weights, batch>>
  /\ tf_i <= Len(MTF_TIMEFRAMES)
  /\ \E resp \in resps :
       \E p \in {MtfPass(positives, details, MTF_TIMEFRAMES[tf_i], resp)} :
           /\ positives' = p.positives
           /\ details' = p.details
           /\ caught' = IF resp.fail \/ TechRaises(resp.frame)
                        THEN caught \cup {MTF_TIMEFRAMES[tf_i]} ELSE caught
  /\ tf_i' = tf_i + 1
  /\ UNCHANGED <<pc, ticker, asset_class, tech_daily, opt, price_sub, flow_sub,
                 fund_sub, inst_proxy, final_score, mtf_count, mtf_confirm,
                 mtf_details, hist, btd_flag, btd_pullback, btd_recent_high,
                 buy_signal, score_trend, history_file, rec>>

\* compute_mtf_confirmation returns
MtfReturn ==
  /\ pc = "mtf"
  /\ UNCHANGED <<invoked, weights, batch>>
  /\ tf_i > Len(MTF_TIMEFRAMES)
  /\ mtf_count' = positives
  /\ mtf_confirm' = (positives >= MTF_CONFIRM_THRESHOLD)
  /\ mtf_details' = details
  /\ pc' = "btd"
  /\ UNCHANGED <<ticker, asset_class, tech_daily, opt, price_sub, flow_sub,
                 fund_sub, inst_proxy, final_score, tf_i, positives, details,
                 hist, btd_flag, btd_pullback, btd_recent_high, buy_signal,
                 score_trend, history_file, rec, caught>>

\* a variant of BtdFetch in which a failing fetch is not caught
BtdFetchRaises(resps) ==
  /\ pc = "btd"
  /\ UNCHANGED <<invoked, weights, batch>>
  /\ \E resp \in resps :
       IF resp.fail
       THEN /\ Fails("No history")
            /\ UNCHANGED <<hist, btd_flag, btd_pullback, btd_recent_high>>
            /\ caught' = caught \cup {"btd"}
       ELSE /\ hist' = resp.frame
            /\ pc' = "btd_compute"
            /\ UNCHANGED <<btd_flag, btd_pullback, btd_recent_high, rec, caught>>
  /\ UNCHANGED <<ticker, asset_class, tech_daily, opt, price_sub, flow_sub,
                 fund_sub, inst_proxy, final_score, tf_i, positives, details,
                 mtf_count, mtf_confirm, mtf_details, buy_signal, score_trend,
                 history_file>>

\* detect_buy_the_dip: the fetch of the daily history, get_history
\* answering with one of resps
BtdFetch(resps) ==
  /\ pc = "btd"
  /\ UNCHANGED <<invoked, weights, batch>>
  /\ \E resp \in resps :
       IF resp.fail
       THEN /\ btd_flag' = FALSE
            /\ btd_pullback' = NaN
            /\ btd_recent_high' = NaN
            /\ caught' = caught \cup {"btd"}
            /\ pc' = "signal"
            /\ UNCHANGED hist
       ELSE /\ hist' = resp.frame
            /\ pc' = "btd_compute"
            /\ UNCHANGED <<btd_flag, btd_pullback, btd_recent_high, caught>>
  /\ UNCHANGED <<ticker, asset_class, tech_daily, opt, price_sub, flow_sub,
                 fund_sub, inst_proxy, final_score, tf_i, positives, details,
                 mtf_count, mtf_confirm, mtf_details, buy_signal, score_trend,
                 history_file, rec>>

\* detect_buy_the_dip: the rest, on the frame fetched
BtdCompute ==
  /\ pc = "btd_compute"
  /\ UNCHANGED <<invoked, weights, batch>>
  /\ IF TechRaises(hist)
     THEN /\ Fails("IndexError")
          /\ UNCHANGED <<hist, btd_flag, btd_pullback, btd_recent_high>>
     ELSE \E b \in {DipOfFrame(hist)} :
              /\ btd_flag' = b.flag
              /\ btd_pullback' = b.pullback
              /\ btd_recent_high' = b.recent_high
              /\ pc' = "signal"
              /\ UNCHANGED <<hist, rec>>
  /\ UNCHANGED <<ticker, asset_class, tech_daily, opt, price_sub, flow_sub,
                 fund_sub, inst_proxy, final_score, tf_i, positives, details,
                 mtf_count, mtf_confirm, mtf_details, buy_signal, score_trend,
                 history_file, caught>>

\* analyze_ticker: buy_signal = get_buy_signal_from_score(final_score)
BuySignal ==
  /\ pc = "signal"
  /\ UNCHANGED <<invoked, weights, batch>>
  /\ buy_signal' = get_buy_signal_from_score(final_score)
  /\ pc' = "refine"
  /\ UNCHANGED <<ticker, asset_class, tech_daily, opt, price_sub, flow_sub,
                 fund_sub, inst_proxy, final_score, tf_i, positives, details,
                 mtf_count, mtf_confirm, mtf_details, hist, btd_flag,
                 btd_pullback, btd_recent_high, score_trend, history_file, rec,
                 caught>>

\* a refinement that looks at the history log: a ticker already logged is
\* held at WATCHLIST
RefineFromLog ==
  /\ pc = "refine"
  /\ UNCHANGED <<invoked, weights, batch>>
  /\ buy_signal' = IF SelectTicker(read_csv(history_file), ticker) # <<>>
                   THEN "WATCHLIST"
                   ELSE RefineSignal(buy_signal, final_score, mtf_confirm, btd_flag)
  /\ pc' = "trend"
  /\ UNCHANGED <<ticker, asset_class, tech_daily, opt, price_sub, flow_sub,
                 fund_sub, inst_proxy, final_score, tf_i, positives, details,
                 mtf_count, mtf_confirm, mtf_details, hist, btd_flag,
                 btd_pullback, btd_recent_high, score_trend, history_file, rec,
                 caught>>

\* analyze_ticker: the refinement of buy_signal with MTF and BTD
Refine ==
  /\ pc = "refine"
  /\ UNCHANGED <<invoked, weights, batch>>
  /\ buy_signal' = RefineSignal(buy_signal, final_score, mtf_confirm, btd_flag)
  /\ pc' = "trend"
  /\ UNCHANGED <<ticker, asset_class, tech_daily, opt, price_sub, flow_sub,
                 fund_sub, inst_proxy, final_score, tf_i, positives, details,
                 mtf_count, mtf_confirm, mtf_details, hist, btd_flag,
                 btd_pullback, btd_recent_high, score_trend, history_file, rec,
                 caught>>

\* a variant of ScoreTrend that reads the log after this run's entry is in it
ScoreTrendAfterAppend ==
  /\ pc = "trend"
  /\ UNCHANGED <<invoked, weights, batch>>
  /\ score_trend' =
       get_score_trend(append_history_row(history_file, ticker, final_score,
                                          buy_signal), ticker, TREND_LOOKBACK)
  /\ pc' = "append"
  /\ UNCHANGED <<ticker, asset_class, tech_daily, opt, price_sub, flow_sub,
                 fund_sub, inst_proxy, final_score, tf_i, positives, details,
                 mtf_count, mtf_confirm, mtf_details, hist, btd_flag,
                 btd_pullback, btd_recent_high, buy_signal, history_file, rec,
                 caught>>

\* analyze_ticker: score_trend = get_score_trend(ticker)
ScoreTrend ==
  /\ pc = "trend"
  /\ UNCHANGED <<invoked, weights, batch>>
  /\ score_trend' = get_score_trend(history_file, ticker, TREND_LOOKBACK)
  /\ pc' = "append"
  /\ UNCHANGED <<ticker, asset_class, tech_daily, opt, price_sub, flow_sub,
                 fund_sub, inst_proxy, final_score, tf_i, positives, details,
                 mtf_count, mtf_confirm, mtf_details, hist, btd_flag,
                 btd_pullback, btd_recent_high, buy_signal, history_file, rec,
                 caught>>

\* a variant of AppendHistory that keeps one entry per ticker: the ticker's
\* earlier entries are dropped when the new one is written
AppendHistoryReplaces ==
  /\ pc = "append"
  /\ UNCHANGED <<invoked, weights, batch>>
  /\ history_file' =
       LET Other(r) == r.Ticker # ticker
       IN  append_history_row([exists |-> history_file.exists,
                               rows |-> SelectSeq(history_file.rows, Other)],
                              ticker, final_score, buy_signal)
  /\ pc' = "fill"
  /\ UNCHANGED <<ticker, asset_class, tech_daily, opt, price_sub, flow_sub,
                 fund_sub, inst_proxy, final_score, tf_i, positives, details,
                 mtf_count, mtf_confirm, mtf_details, hist, btd_flag,
                 btd_pullback, btd_recent_high, buy_signal, score_trend, rec,
                 caught>>

\* analyze_ticker: append_history_row(ticker, final_score, buy_signal)
AppendHistory ==
  /\ pc = "append"
  /\ UNCHANGED <<invoked, weights, batch>>
  /\ history_file' = append_history_row(history_file, ticker, final_score, buy_signal)
  /\ pc' = "fill"
  /\ UNCHANGED <<ticker, asset_class, tech_daily, opt, price_sub, flow_sub,
                 fund_sub, inst_proxy, final_score, tf_i, positives, details,
                 mtf_count, mtf_confirm, mtf_details, hist, btd_flag,
                 btd_pullback, btd_recent_high, buy_signal, score_trend, rec,
                 caught>>

\* analyze_ticker: rec.update({...}) and return
FillRecord ==
  /\ pc = "fill"
  /\ UNCHANGED <<invoked, weights, batch>>
  /\ \E known \in {RoundedScores} : \E filled \in {
       [price_subscore |-> RoundedScore(known, price_sub),
        flow_subscore |-> RoundedScore(known, flow_sub),
        fund_subscore |-> RoundedScore(known, OrNeutral(fund_sub)),
        inst_flow_proxy |-> RoundedScore(known, OrNeutral(inst_proxy)),
        final_readiness_score |-> RoundedScore(known, final_score),
        buy_signal |-> buy_signal,
        signal_strength |-> SignalStrength(final_score),
        score_trend |-> score_trend,
        mtf_positive_count |-> mtf_count,
        mtf_confirm |-> mtf_confirm,
        mtf_details |-> mtf_details,
        buy_the_dip |-> btd_flag,
        btd_pullback_pct |-> btd_pullback,
        btd_recent_high |-> btd_recent_high,
        last_close |-> tech_daily.last_close,
        avg_vol_30 |-> tech_daily.avg_vol_30,
        opt_nearest_expiry |-> opt.opt_nearest_expiry,
        call_put_vol_ratio |-> opt.call_put_vol_ratio]} :
       rec' = Update(rec, filled)
  /\ pc' = "done"
  /\ UNCHANGED <<ticker, asset_class, tech_daily, opt, price_sub, flow_sub,
                 fund_sub, inst_proxy, final_score, tf_i, positives, details,
                 mtf_count, mtf_confirm, mtf_details, hist, btd_flag,
                 btd_pullback, btd_recent_high, buy_signal, score_trend,
                 history_file, caught>>

Next ==
  \/ AnalyzeStart(CatalogueResponses)
  \/ MtfStep(CatalogueResponses)
  \/ MtfReturn
  \/ BtdFetch(CatalogueResponses)
  \/ BtdCompute
  \/ BuySignal
  \/ Refine
  \/ ScoreTrend
  \/ AppendHistory
  \/ FillRecord

\* one call of analyze_ticker, the providers answering from Catalogue
Spec == Init /\ [][Next]_vars

----------------------------------------------------------------------------
(* The parts of analyze_ticker on their own, each from the states in which  *)
(* analyze_ticker reaches it, with inputs drawn more widely than Catalogue  *)

\* analyze_ticker has classified and scored the ticker
Analysed(cls, named, S) ==
  /\ asset_class = cls
  /\ tech_daily = S.tech_daily
  /\ opt = S.opt
  /\ price_sub = S.price_sub
  /\ flow_sub = S.flow_sub
  /\ fund_sub = S.fund_sub
  /\ inst_proxy = S.inst_proxy
  /\ final_score = S.final_score
  /\ invoked = S.called
  /\ weights = S.weights
  /\ rec = Classified([x \in {"ticker"} |-> ticker], cls, named)
  /\ Single

FirstScored ==
  Scored("EQUITY", Bars(<<80, 100, 98>>, <<79, 97, 96>>, <<10, 10, 10>>),
         NoExpiry, NoFundamentals)

\* the four subscores and the final score all equal to s: every final score
\* of ScoreGrid, whichever subscores blend to it
ScoredAs(s) ==
  [FirstScored EXCEPT !.price_sub = s, !.flow_sub = s, !.fund_sub = s,
                      !.inst_proxy = s, !.final_score = s]

\* compute_mtf_confirmation run on the answers resps[1..i]
RECURSIVE MtfRun(_, _)
MtfRun(resps, i) ==
  IF i = 0 THEN [positives |-> 0, details |-> NoDetails]
  ELSE CHOOSE r \in {MtfPass(p.positives, p.details, MTF_TIMEFRAMES[i], resps[i])
                     : p \in {MtfRun(resps, i - 1)}} : TRUE

MtfCaught(resps) ==
  {MTF_TIMEFRAMES[i] : i \in {j \in 1..Len(resps) :
                                resps[j].fail \/ TechRaises(resps[j].frame)}}

\* compute_mtf_confirmation has returned, the provider having answered resps
MtfReturned(resps) ==
  LET p == MtfRun(resps, Len(MTF_TIMEFRAMES))
  IN  /\ tf_i = Len(MTF_TIMEFRAMES) + 1
      /\ positives = p.positives
      /\ details = p.details
      /\ mtf_count = p.positives
      /\ mtf_confirm = (p.positives >= MTF_CONFIRM_THRESHOLD)
      /\ mtf_details = p.details

\* detect_buy_the_dip has returned, the provider having answered resp with a
\* failure or a frame with rows
BtdReturned(resp) ==
  IF resp.fail
  THEN BtdUnassigned
  ELSE LET b == DipOfFrame(resp.frame)
       IN  /\ hist = resp.frame
           /\ btd_flag = b.flag
           /\ btd_pullback = b.pullback
           /\ btd_recent_high = b.recent_high

NoAnswer == [fail |-> TRUE, frame |-> NoHist]
Rising == [fail |-> FALSE, frame |-> CloseOnly(<<80, 100, 98>>)]
Falling == [fail |-> FALSE, frame |-> CloseOnly(<<100, 98>>)]

\* answers for the three timeframes: 0, 0, 1, 2 and 3 of them positive
MtfCases ==
  { <<NoAnswer, NoAnswer, NoAnswer>>,
    <<Falling, Falling, Falling>>,
    <<Rising, NoAnswer, Falling>>,
    <<Rising, NoAnswer, Rising>>,
    <<Rising, Rising, Rising>> }

\* answers for the daily history of detect_buy_the_dip: none, a downtrend,
\* an uptrend 10% under its high, an uptrend 2% under its high
BtdCases ==
  HistResponses({CloseOnly(<<100, 98>>), CloseOnly(<<80, 100, 90>>),
                 CloseOnly(<<80, 100, 98>>)})

\* the history file before the call: none, or one earlier row of the ticker
PriorFiles ==
  {NoFile} \cup
  {[exists |-> TRUE,
    rows |-> <<[Ticker |-> t, Score |-> I(70), Signal |-> "WATCHLIST"]>>]
   : t \in Tickers}

\* compute_mtf_confirmation, as analyze_ticker calls it
InitMTF ==
  /\ pc = "mtf"
  /\ ticker \in Tickers
  /\ Analysed("EQUITY", "Technology", FirstScored)
  /\ MtfUnassigned /\ BtdUnassigned /\ SignalUnassigned
  /\ history_file = NoFile
  /\ caught = {}

NextMTF ==
  \/ MtfStep(FrameResponses)
  \/ MtfReturn

SpecMTF == InitMTF /\ [][NextMTF]_vars

\* detect_buy_the_dip, as analyze_ticker calls it
InitBTD ==
  /\ pc = "btd"
  /\ ticker \in Tickers
  /\ Analysed("EQUITY", "Technology", FirstScored)
  /\ \E m \in MtfCases : MtfReturned(m) /\ caught = MtfCaught(m)
  /\ BtdUnassigned /\ SignalUnassigned
  /\ history_file = NoFile

NextBTD ==
  \/ BtdFetch(FrameResponses)
  \/ BtdCompute

SpecBTD == InitBTD /\ [][NextBTD]_vars

\* the buy signal, the trend, the history row and the record, as
\* analyze_ticker computes them once MTF and BTD have returned
InitSignal ==
  /\ pc = "signal"
  /\ ticker \in Tickers
  /\ \E s \in ScoreGrid : Analysed("EQUITY", "Technology", ScoredAs(s))
  /\ \E m \in MtfCases, b \in BtdCases :
       /\ MtfReturned(m)
       /\ BtdReturned(b)
       /\ caught = MtfCaught(m) \cup (IF b.fail THEN {"btd"} ELSE {})
  /\ SignalUnassigned
  /\ history_file \in PriorFiles

NextSignal ==
  \/ BuySignal
  \/ Refine
  \/ ScoreTrend
  \/ AppendHistory
  \/ FillRecord

SpecSignal == InitSignal /\ [][NextSignal]_vars

----------------------------------------------------------------------------
(* run_and_save: analyze_ticker for each ticker of a list, then the ranking *)

MaxTickers == 3

ListTickers == {"AAA", "BBB"}

\* what the provider holds for one ticker: its class, its sector, one daily
\* history (or none), the same bars for the intraday timeframes, no option
\* expiry and no fundamentals
ProviderData ==
  {[cls |-> "EQUITY", named |-> n, daily |-> d, h4 |-> d, h1 |-> d,
    opt |-> NoExpiry, fi |-> NoFundamentals]
   : n \in InfoSectors,
     d \in HistResponses(ListFrames)}

\* get_history(ticker, timeframe) on the provider's data w
ProviderHistory(w, tf) ==
  IF tf = "1d" THEN w.daily ELSE IF tf = "4h" THEN w.h4 ELSE w.h1

NoRec == <<>>

InitBatch ==
  /\ pc = "idle"
  /\ tickers \in SeqsUpTo(ListTickers, MaxTickers)
  /\ provider \in [1..Len(tickers) -> ProviderData]
  /\ t_i = 1
  /\ rows = <<>>
  /\ df_sorted = <<>>
  /\ ticker = "unset"
  /\ asset_class = "unset"
  /\ Unassigned /\ MtfUnassigned /\ BtdUnassigned /\ SignalUnassigned
  /\ history_file = NoFile
  /\ rec = NoRec
  /\ caught = {}
  /\ invoked = {}
  /\ calls = <<>>

\* run_and_save: "r = analyze_ticker(t)" is entered, with fresh locals
RunCall ==
  /\ pc = "idle"
  /\ t_i <= Len(tickers)
  /\ ticker' = tickers[t_i]
  /\ rec' = [x \in {"ticker"} |-> tickers[t_i]]
  /\ asset_class' = "unset"
  /\ tech_daily' = NoTech /\ opt' = NoOpt
  /\ price_sub' = NaN /\ flow_sub' = NaN /\ fund_sub' = NaN /\ inst_proxy' = NaN
  /\ final_score' = NaN
  /\ tf_i' = 1 /\ positives' = 0 /\ details' = NoDetails
  /\ mtf_count' = 0 /\ mtf_confirm' = FALSE /\ mtf_details' = NoDetails
  /\ hist' = NoHist
  /\ btd_flag' = FALSE /\ btd_pullback' = NaN /\ btd_recent_high' = NaN
  /\ buy_signal' = "unset" /\ score_trend' = "unset"
  /\ caught' = {} /\ invoked' = {} /\ weights' = NoWeights
  /\ pc' = "start"
  /\ UNCHANGED <<history_file, batch>>

\* analyze_ticker up to final_score, on the provider's data for this ticker
RunAnalyze ==
  /\ pc = "start"
  /\ \E w \in {provider[t_i]} :
       AnalyzeStep({w.cls}, {w.named}, {w.daily}, {w.opt}, {w.fi})

RunMtfStep ==
  /\ pc = "mtf"
  /\ tf_i <= Len(MTF_TIMEFRAMES)
  /\ MtfStep({ProviderHistory(provider[t_i], MTF_TIMEFRAMES[tf_i])})

RunBtdFetch ==
  /\ pc = "btd"
  /\ BtdFetch({provider[t_i].daily})

\* a variant of RunAppend that drops the record of a failed analysis
RunAppendSkipsErrors ==
  /\ pc = "done"
  /\ rows' = IF "error" \in DOMAIN rec THEN rows ELSE Append(rows, rec)
  /\ t_i' = t_i + 1
  /\ pc' = "idle"
  /\ UNCHANGED <<ticker, asset_class, tech_daily, opt, price_sub, flow_sub,
                 fund_sub, inst_proxy, final_score, tf_i, positives, details,
                 mtf_count, mtf_confirm, mtf_details, hist, btd_flag,
                 btd_pullback, btd_recent_high, buy_signal, score_trend,
                 history_file, rec, caught, invoked, weights, tickers, df_sorted,
                 provider, calls>>

\* run_and_save: rows.append(r)
RunAppend ==
  /\ pc = "done"
  /\ rows' = Append(rows, rec)
  /\ t_i' = t_i + 1
  /\ pc' = "idle"
  /\ UNCHANGED <<ticker, asset_class, tech_daily, opt, price_sub, flow_sub,
                 fund_sub, inst_proxy, final_score, tf_i, positives, details,
                 mtf_count, mtf_confirm, mtf_details, hist, btd_flag,
                 btd_pullback, btd_recent_high, buy_signal, score_trend,
                 history_file, rec, caught, invoked, weights, tickers, df_sorted,
                 provider, calls>>

HasScore(r) == "final_readiness_score" \in DOMAIN r

\* the orders sort_values('final_readiness_score', ascending=False) can give
\* to rs: the scored records by falling score, equal scores in any order,
\* then the records without a score in their order of arrival
Rankings(rs) ==
  LET n == Len(rs)
      perms == {f \in [1..n -> 1..n] : \A i, j \in 1..n : f[i] = f[j] => i = j}
      falling(f) ==
        \A i, j \in 1..n :
          i < j =>
            \/ (HasScore(rs[f[i]]) /\ ~HasScore(rs[f[j]]))
            \/ (HasScore(rs[f[i]]) /\ HasScore(rs[f[j]])
                  /\ RGe(rs[f[i]]["final_readiness_score"],
                         rs[f[j]]["final_readiness_score"]))
            \/ (~HasScore(rs[f[i]]) /\ ~HasScore(rs[f[j]]) /\ f[i] < f[j])
  IN  {[i \in 1..n |-> rs[f[i]]] : f \in {g \in perms : falling(g)}}

\* run_and_save after the loop: the ranking and the workbook.  With no scored
\* record the frame has no final_readiness_score column (with no record at
\* all, no ticker column), and the sheets' code raises KeyError.
RunSave ==
  /\ pc = "idle"
  /\ t_i > Len(tickers)
  /\ IF \E i \in 1..Len(rows) : HasScore(rows[i])
     THEN /\ df_sorted' \in Rankings(rows)
          /\ pc' = "saved"
     ELSE /\ df_sorted' = rows
          /\ pc' = "raised"
  /\ UNCHANGED <<ticker, asset_class, tech_daily, opt, price_sub, flow_sub,
                 fund_sub, inst_proxy, final_score, tf_i, positives, details,
                 mtf_count, mtf_confirm, mtf_details, hist, btd_flag,
                 btd_pullback, btd_recent_high, buy_signal, score_trend,
                 history_file, rec, caught, invoked, weights, tickers, t_i, rows,
                 provider, calls>>

NextBatch ==
  \/ RunCall
  \/ RunAnalyze
  \/ RunMtfStep
  \/ MtfReturn
  \/ RunBtdFetch
  \/ BtdCompute
  \/ BuySignal
  \/ Refine
  \/ ScoreTrend
  \/ AppendHistory
  \/ FillRecord
  \/ RunAppend
  \/ RunSave

SpecBatch == InitBatch /\ [][NextBatch]_vars

\* the interpreter runs the next statement: the batch is one sequential
\* program, and each call to the provider returns or raises
SpecBatchLive == SpecBatch /\ WF_vars(NextBatch)

----------------------------------------------------------------------------
(* The score blender on its own: lines 556-574 of analyze_ticker, for every  *)
(* class and a grid of subscores                                             *)

\* the classes of the table and one that is not in it
BlendClasses == AssetClasses \cup {"MUTUALFUND"}

SubGrid == {I(0), I(50), I(100)}

InitBlend ==
  /\ pc = "blend"
  /\ ticker \in Tickers
  /\ asset_class \in BlendClasses
  /\ tech_daily = NoTech /\ opt = NoOpt
  /\ price_sub \in SubGrid
  /\ flow_sub \in SubGrid
  /\ fund_sub \in {NaN, I(0), I(100)}
  /\ inst_proxy \in {NaN, I(100)}
  /\ final_score = NaN
  /\ weights = NoWeights
  /\ MtfUnassigned /\ BtdUnassigned /\ SignalUnassigned
  /\ history_file = NoFile
  /\ rec = [x \in {"ticker"} |-> ticker]
  /\ caught = {}
  /\ invoked = {}
  /\ Single

\* analyze_ticker: the weights and final_score
BlendStep ==
  /\ pc = "blend"
  /\ weights' = WeightsOf(asset_class)
  /\ final_score' = Blend(asset_class, price_sub, flow_sub, fund_sub, inst_proxy)
  /\ pc' = "blended"
  /\ UNCHANGED <<ticker, asset_class, tech_daily, opt, price_sub, flow_sub,
                 fund_sub, inst_proxy, tf_i, positives, details, mtf_count,
                 mtf_confirm, mtf_details, hist, btd_flag, btd_pullback,
                 btd_recent_high, buy_signal, score_trend, history_file, rec,
                 caught, invoked, batch>>

NextBlend == BlendStep

SpecBlend == InitBlend /\ [][NextBlend]_vars

----------------------------------------------------------------------------
(* The price scorer on its own: score_price_momentum_from_tech called on     *)
(* bundles that differ in the RSI only                                       *)

MaxCalls == 2

\* a bundle as compute_technical_metrics_from_hist returns it
BaseTech ==
  compute_technical_metrics_from_hist(
    [Close |-> <<80, 100, 98>>, Low |-> <<79, 97, 96>>, Volume |-> <<10, 10, 10>>])

\* RSI values of [0, 100], around the breaks of the mapping at 30, 60 and 80
RsiGrid ==
  {I(r) : r \in {0, 29, 30, 35, 38, 40, 50, 60, 70, 80, 81, 85, 90, 91, 100}}
    \cup {R(161, 2)}

\* the bundles of the calls: every setting of the four flags, no RSI
PriceBundles ==
  {[BaseTech EXCEPT !.ema_cross = ec, !.price_above_ema_slow = pa,
                    !.higher_lows_3 = hl, !.rsi_rising = rr, !.rsi = NaN] :
     ec \in {0, 1}, pa \in {0, 1}, hl \in {0, 1}, rr \in {0, 1}}

\* score_price_momentum_from_tech of each bundle with each RSI, computed once
PriceScores ==
  [t \in {[b EXCEPT !.rsi = r] : b \in PriceBundles, r \in RsiGrid \cup {NaN}} |->
     score_price_momentum_from_tech(t)]

InitPrice ==
  /\ pc = "price"
  /\ ticker \in Tickers
  /\ asset_class = "unset"
  /\ tech_daily \in PriceBundles
  /\ opt = NoOpt
  /\ price_sub = NaN /\ flow_sub = NaN /\ fund_sub = NaN /\ inst_proxy = NaN
  /\ final_score = NaN
  /\ weights = NoWeights
  /\ MtfUnassigned /\ BtdUnassigned /\ SignalUnassigned
  /\ history_file = NoFile
  /\ rec = [x \in {"ticker"} |-> ticker]
  /\ caught = {}
  /\ invoked = {}
  /\ Single

\* one call score_price_momentum_from_tech(tech), tech being the bundle with
\* some RSI, or with none
CallPrice ==
  /\ pc = "price"
  /\ Len(calls) < MaxCalls
  /\ \E r \in RsiGrid \cup {NaN} :
     \E t \in {[tech_daily EXCEPT !.rsi = r]} :
       calls' = Append(calls, [tech |-> t, result |-> PriceScores[t]])
  /\ UNCHANGED <<pc, ticker, asset_class, tech_daily, opt, price_sub, flow_sub,
                 fund_sub, inst_proxy, final_score, tf_i, positives, details,
                 mtf_count, mtf_confirm, mtf_details, hist, btd_flag,
                 btd_pullback, btd_recent_high, buy_signal, score_trend,
                 history_file, rec, caught, invoked, weights, tickers, t_i,
                 rows, df_sorted, provider>>

NextPrice == CallPrice

SpecPrice == InitPrice /\ [][NextPrice]_vars

----------------------------------------------------------------------------
(* The options metrics and the flow scorer on their own:                     *)
(* compute_options_metrics on what the provider answers, then                *)
(* score_volume_flow_from_tech_opt on its result                             *)

\* the provider has no expiry, fails, or gives a chain; a put sum of 0 among
\* the chains
FlowOptResponses ==
  { NoExpiry, [kind |-> "fail", cv |-> 0, pv |-> 0, coi |-> 0, poi |-> 0] }
    \cup {Chain(cv, pv, coi, poi) :
            cv \in {1, 5}, pv \in {0, 1}, coi \in {0, 5}, poi \in {0, 1}}

\* the bundles of the calls: every setting of the two flags of the scorer
FlowBundles ==
  {[BaseTech EXCEPT !.vol_spike_up = vs, !.obv_slope_pos = op] :
     vs \in {0, 1}, op \in {0, 1}}

\* compute_options_metrics of each answer, and score_volume_flow_from_tech_opt
\* of each bundle, each of those metrics and each class, computed once
FlowMetrics == [resp \in FlowOptResponses |-> compute_options_metrics(resp)]

FlowScores ==
  [x \in {<<tech, resp, cls>> : tech \in FlowBundles, resp \in FlowOptResponses,
                                cls \in AssetClasses} |->
     score_volume_flow_from_tech_opt(x[1], FlowMetrics[x[2]], x[3])]

InitFlow ==
  /\ pc = "flow"
  /\ ticker \in Tickers
  /\ asset_class \in AssetClasses
  /\ tech_daily \in FlowBundles
  /\ opt = NoOpt
  /\ price_sub = NaN /\ flow_sub = NaN /\ fund_sub = NaN /\ inst_proxy = NaN
  /\ final_score = NaN
  /\ weights = NoWeights
  /\ MtfUnassigned /\ BtdUnassigned /\ SignalUnassigned
  /\ history_file = NoFile
  /\ rec = [x \in {"ticker"} |-> ticker]
  /\ caught = {}
  /\ invoked = {}
  /\ Single

\* opt = compute_options_metrics(ticker), then
\* score_volume_flow_from_tech_opt(tech_daily, opt, asset_class)
CallFlow ==
  /\ pc = "flow"
  /\ Len(calls) < MaxCalls
  /\ \E resp \in FlowOptResponses :
       calls' = Append(calls,
                       [resp |-> resp, opt |-> FlowMetrics[resp],
                        result |-> FlowScores[<<tech_daily, resp, asset_class>>]])
  /\ UNCHANGED <<pc, ticker, asset_class, tech_daily, opt, price_sub, flow_sub,
                 fund_sub, inst_proxy, final_score, tf_i, positives, details,
                 mtf_count, mtf_confirm, mtf_details, hist, btd_flag,
                 btd_pullback, btd_recent_high, buy_signal, score_trend,
                 history_file, rec, caught, invoked, weights, tickers, t_i,
                 rows, df_sorted, provider>>

NextFlow == CallFlow

SpecFlow == InitFlow /\ [][NextFlow]_vars

----------------------------------------------------------------------------
(* The history log on its own: append_history_row and get_score_trend called *)
(* in any order for tickers of TOP_LEVEL_TICKERS                             *)

MaxRows == 4

\* "NA" is a ticker of TOP_LEVEL_TICKERS, like the two others
HistTickers == {"AAA", "BBB", "NA"}

HistScores == {I(60), I(70), I(80)}

InitHistory ==
  /\ pc = "hist"
  /\ ticker = "unset"
  /\ asset_class = "unset"
  /\ Unassigned /\ MtfUnassigned /\ BtdUnassigned /\ SignalUnassigned
  /\ history_file = NoFile
  /\ rec = NoRec
  /\ caught = {}
  /\ invoked = {}
  /\ tickers = <<>> /\ t_i = 1 /\ rows = <<>> /\ df_sorted = <<>>
  /\ provider = <<>>
  /\ calls = <<>>

\* append_history_row(t, s, signal)
HistoryAppend ==
  /\ pc \in {"hist", "appended", "read"}
  /\ Len(history_file.rows) < MaxRows
  /\ \E t \in HistTickers, s \in HistScores :
       /\ ticker' = t
       /\ final_score' = s
       /\ buy_signal' = get_buy_signal_from_score(s)
       /\ history_file' = append_history_row(history_file, t, s,
                                             get_buy_signal_from_score(s))
  /\ score_trend' = "unset"
  /\ calls' = <<>>
  /\ pc' = "appended"
  /\ UNCHANGED <<asset_class, tech_daily, opt, price_sub, flow_sub, fund_sub,
                 inst_proxy, tf_i, positives, details, mtf_count, mtf_confirm,
                 mtf_details, hist, btd_flag, btd_pullback, btd_recent_high,
                 rec, caught, invoked, weights, tickers, t_i, rows, df_sorted,
                 provider>>

\* get_score_trend(t); calls keeps df_t["Score"], the scores it read for t,
\* and whether the call came right after an append for t
HistoryTrend ==
  /\ pc \in {"hist", "appended", "read"}
  /\ \E t \in HistTickers :
       /\ ticker' = t
       /\ score_trend' = get_score_trend(history_file, t, TREND_LOOKBACK)
       /\ calls' = <<[after_append |-> pc = "appended" /\ ticker = t,
                      recent |-> IF history_file.exists
                                 THEN [i \in DOMAIN RecentRows(history_file, t, TREND_LOOKBACK)
                                         |-> RecentRows(history_file, t, TREND_LOOKBACK)[i].Score]
                                 ELSE <<>>]>>
  /\ pc' = "read"
  /\ UNCHANGED <<asset_class, tech_daily, opt, price_sub, flow_sub, fund_sub,
                 inst_proxy, final_score, tf_i, positives, details, mtf_count,
                 mtf_confirm, mtf_details, hist, btd_flag, btd_pullback,
                 btd_recent_high, buy_signal, history_file, rec, caught,
                 invoked, weights, tickers, t_i, rows, df_sorted, provider>>

NextHistory == HistoryAppend \/ HistoryTrend

SpecHistory == InitHistory /\ [][NextHistory]_vars

----------------------------------------------------------------------------
(* The technical metrics on their own: compute_technical_metrics_from_hist   *)
(* on a frame, then score_price_momentum_from_tech on its bundle             *)

\* 16 bars, every close above the one before
Rising16 == CloseOnly([i \in 1..16 |-> 80 + i])

\* 16 bars, every close the same
Flat16 == CloseOnly([i \in 1..16 |-> 90])

\* 17 bars: one fall, then 15 rises; the fall is in the RSI window two bars
\* back and out of the last one
FallThenRise == CloseOnly(<<100, 90>> \o [i \in 1..15 |-> 90 + i])

\* 16 bars, rises and falls, with volume
UpsAndDowns ==
  Bars([i \in 1..16 |-> 90 + (i % 3) * 2 + i],
       [i \in 1..16 |-> 89 + (i % 3) * 2 + i],
       [i \in 1..16 |-> 10 + (i % 4)])

\* 16 bars with volume, rising but for two flat steps and two falls
ObvMixed ==
  Bars(<<80, 81, 81, 82, 80, 83, 84, 84, 85, 86, 85, 87, 88, 89, 90, 91>>,
       <<79, 80, 80, 81, 79, 82, 83, 83, 84, 85, 84, 86, 87, 88, 89, 90>>,
       <<10, 20, 30, 10, 40, 10, 20, 30, 10, 20, 50, 10, 20, 30, 10, 20>>)

TechFrames ==
  Frames \cup Catalogue
    \cup {Rising16, Flat16, FallThenRise, UpsAndDowns, ObvMixed}

InitTech ==
  /\ pc = "tech"
  /\ ticker \in Tickers
  /\ asset_class = "unset"
  /\ Unassigned /\ MtfUnassigned /\ SignalUnassigned
  /\ hist \in TechFrames
  /\ btd_flag = FALSE /\ btd_pullback = NaN /\ btd_recent_high = NaN
  /\ history_file = NoFile
  /\ rec = [x \in {"ticker"} |-> ticker]
  /\ caught = {}
  /\ invoked = {}
  /\ Single

\* compute_obv(df) as the list it builds, one entry for each row
ObvSeries(df) == [i \in 1..Rows(df) |-> compute_obv(df, i)]

\* tech = compute_technical_metrics_from_hist(hist): it raises on a frame
\* with no row, else returns the bundle; calls keeps what its compute_obv
\* returned
ComputeTech ==
  /\ pc = "tech"
  /\ IF TechRaises(hist)
     THEN /\ pc' = "raised"
          /\ UNCHANGED <<tech_daily, calls>>
     ELSE /\ tech_daily' = compute_technical_metrics_from_hist(hist)
          /\ calls' = <<[obv |-> ObvSeries(hist)]>>
          /\ pc' = "computed"
  /\ UNCHANGED <<ticker, asset_class, opt, price_sub, flow_sub, fund_sub,
                 inst_proxy, final_score, tf_i, positives, details, mtf_count,
                 mtf_confirm, mtf_details, hist, btd_flag, btd_pullback,
                 btd_recent_high, buy_signal, score_trend, history_file, rec,
                 caught, invoked, weights, tickers, t_i, rows, df_sorted,
                 provider>>

\* price_sub = score_price_momentum_from_tech(tech)
ScoreTech ==
  /\ pc = "computed"
  /\ price_sub' = score_price_momentum_from_tech(tech_daily)
  /\ pc' = "scored"
  /\ UNCHANGED <<ticker, asset_class, tech_daily, opt, flow_sub, fund_sub,
                 inst_proxy, final_score, tf_i, positives, details, mtf_count,
                 mtf_confirm, mtf_details, hist, btd_flag, btd_pullback,
                 btd_recent_high, buy_signal, score_trend, history_file, rec,
                 caught, invoked, weights, batch>>

NextTech == ComputeTech \/ ScoreTech

SpecTech == InitTech /\ [][NextTech]_vars

----------------------------------------------------------------------------
(* analyze_ticker on a provider that holds one daily series for the ticker: *)
(* the primary fetch, the "1d" fetch of compute_mtf_confirmation and the    *)
(* fetch of detect_buy_the_dip each ask the provider, and each gets that    *)
(* series (or each fails)                                                   *)

\* what get_history gives for "4h" and "1h": nothing, or intraday bars
IntradayResponses == HistResponses({CloseOnly(<<80, 90, 100>>)})

FetchData ==
  {[cls |-> "EQUITY", named |-> n, daily |-> d, h4 |-> i, h1 |-> i,
    opt |-> NoExpiry, fi |-> NoFundamentals]
   : n \in InfoSectors,
     d \in HistResponses(TechFrames),
     i \in IntradayResponses}

InitFetch ==
  /\ pc = "start"
  /\ ticker \in Tickers
  /\ asset_class = "unset"
  /\ Unassigned /\ MtfUnassigned /\ BtdUnassigned /\ SignalUnassigned
  /\ history_file = NoFile
  /\ rec = [x \in {"ticker"} |-> ticker]
  /\ caught = {}
  /\ invoked = {}
  /\ tickers = <<ticker>> /\ t_i = 1 /\ rows = <<>> /\ df_sorted = <<>>
  /\ provider \in [1..1 -> FetchData]
  /\ calls = <<>>

NextFetch ==
  \/ RunAnalyze
  \/ RunMtfStep
  \/ MtfReturn
  \/ RunBtdFetch
  \/ BtdCompute
  \/ BuySignal
  \/ Refine
  \/ ScoreTrend
  \/ AppendHistory
  \/ FillRecord

SpecFetch == InitFetch /\ [][NextFetch]_vars

----------------------------------------------------------------------------
(* Properties *)

Labels ==
  {"STRONG BUY", "BUY", "WATCHLIST", "WATCHLIST (BTD)", "BUY (BTD)", "NO TRADE"}

\* buy_signal holds the base label
BaseLabelled == pc = "refine"

\* buy_signal holds the label after the refinement
Refined == pc \in {"trend", "append", "fill", "done"} /\ buy_signal # "unset"

InBand(lo, score, hi) == RGe(score, I(lo)) /\ RLt(score, I(hi))

\* x and y are the same number up to the rounding of the float operations
\* behind them: they differ by one millionth at most
Tolerance == F64Div(I(1), I(1000000))

Near(x, y) == IsFinite(x) /\ IsFinite(y) /\ RLe(RAbs(RSub(x, y)), Tolerance)

\* C1: when the base label is STRONG BUY or BUY (final_score >= 75) and
\* mtf_confirm is false, the resulting buy_signal is "BUY (BTD)" if
\* buy_the_dip is true and final_score >= 70, and "WATCHLIST" otherwise.
C1_UnconfirmedBuy ==
  (Refined /\ RGe(final_score, I(75)) /\ ~mtf_confirm) =>
     buy_signal = IF btd_flag /\ RGe(final_score, I(70))
                  THEN "BUY (BTD)" ELSE "WATCHLIST"

\* score 77, mtf_confirm false, buy_the_dip true: the record says "BUY (BTD)"
C1_Witness ==
  /\ pc = "done" /\ final_score = I(77) /\ ~mtf_confirm /\ btd_flag
  /\ "buy_signal" \in DOMAIN rec /\ rec["buy_signal"] = "BUY (BTD)"

\* C2, as the claim states it: with 65 <= final_score < 75 the resulting
\* buy_signal is "WATCHLIST" for every mtf_confirm and buy_the_dip.
C2_WatchlistNeverRefined ==
  (Refined /\ InBand(65, final_score, 75)) => buy_signal = "WATCHLIST"

\* C3, amended: final_score 68 has the base label WATCHLIST, and whenever
\* buy_the_dip is true and 65 <= final_score < 70 the resulting label is
\* "WATCHLIST (BTD)".
C3_DipOnWatchlist ==
  /\ (BaseLabelled /\ final_score = I(68)) => buy_signal = "WATCHLIST"
  /\ (Refined /\ btd_flag /\ InBand(65, final_score, 70)) =>
        buy_signal = "WATCHLIST (BTD)"

\* C3, as the claim states it: final_score 68 has the base label NO TRADE,
\* and with buy_the_dip true, a base label NO TRADE and 65 <= final_score < 70
\* the resulting label is "WATCHLIST (BTD)".
C3_AsStated ==
  /\ (BaseLabelled /\ final_score = I(68)) => buy_signal = "NO TRADE"
  /\ (Refined /\ btd_flag /\ final_score = I(68)) => buy_signal = "WATCHLIST (BTD)"
  /\ (Refined /\ btd_flag /\ InBand(65, final_score, 70)
        /\ get_buy_signal_from_score(final_score) = "NO TRADE") =>
        buy_signal = "WATCHLIST (BTD)"

\* score 68, buy_the_dip true: the record says "WATCHLIST (BTD)"
C3_Witness ==
  /\ pc = "done" /\ final_score = I(68) /\ btd_flag
  /\ "buy_signal" \in DOMAIN rec /\ rec["buy_signal"] = "WATCHLIST (BTD)"

\* C4: when mtf_confirm is true and the base label is STRONG BUY or BUY, the
\* resulting buy_signal is that base label, whatever buy_the_dip is.
C4_ConfirmedBuyKept ==
  (Refined /\ mtf_confirm /\ RGe(final_score, I(75))) =>
     buy_signal = IF RGe(final_score, I(80)) THEN "STRONG BUY" ELSE "BUY"

\* MTF confirmed, a dip flagged, score 77: the record says "BUY"
C4_Witness ==
  /\ pc = "done" /\ mtf_confirm /\ btd_flag /\ final_score = I(77)
  /\ "buy_signal" \in DOMAIN rec /\ rec["buy_signal"] = "BUY"

\* C5: the base label and signal_strength are both given by final_score
\* alone, with inclusive thresholds 80, 75 and 65: STRONG BUY/High, BUY/Medium,
\* WATCHLIST/Low, else NO TRADE/None; the refinement of the label does not
\* change signal_strength.
C5_ScoreBands ==
  /\ BaseLabelled =>
       buy_signal = IF RGe(final_score, I(80)) THEN "STRONG BUY"
                    ELSE IF RGe(final_score, I(75)) THEN "BUY"
                    ELSE IF RGe(final_score, I(65)) THEN "WATCHLIST"
                    ELSE "NO TRADE"
  /\ "signal_strength" \in DOMAIN rec =>
       rec["signal_strength"] = IF RGe(final_score, I(80)) THEN "High"
                                ELSE IF RGe(final_score, I(75)) THEN "Medium"
                                ELSE IF RGe(final_score, I(65)) THEN "Low"
                                ELSE "None"

\* score 80.0 without MTF confirmation: the label is refined to WATCHLIST and
\* the strength is still High
C5_Witness ==
  /\ pc = "done" /\ final_score = I(80) /\ ~mtf_confirm /\ ~btd_flag
  /\ "signal_strength" \in DOMAIN rec
  /\ rec["signal_strength"] = "High" /\ rec["buy_signal"] = "WATCHLIST"

\* C6: the buy_signal of the record and of every row of the history log is
\* one of STRONG BUY, BUY, WATCHLIST, WATCHLIST (BTD), BUY (BTD), NO TRADE.
C6_LabelSet ==
  /\ "buy_signal" \in DOMAIN rec => rec["buy_signal"] \in Labels
  /\ \A i \in 1..Len(history_file.rows) : history_file.rows[i].Signal \in Labels

\* a STRONG BUY score, no MTF confirmation, a dip: record and log say "BUY (BTD)"
C6_Witness ==
  /\ pc = "done" /\ RGe(final_score, I(80)) /\ ~mtf_confirm /\ btd_flag
  /\ "buy_signal" \in DOMAIN rec /\ rec["buy_signal"] = "BUY (BTD)"
  /\ history_file.rows[Len(history_file.rows)].Signal = "BUY (BTD)"

\* compute_mtf_confirmation has returned to analyze_ticker
MtfDone == DOMAIN mtf_details # {}

\* C7: compute_mtf_confirmation takes the timeframes 1d, 4h, 1h in turn;
\* mtf_positive_count is the number of timeframes whose price score is
\* >= 60.0 and mtf_confirm holds iff that count is >= 2; a timeframe whose
\* fetch or metrics fail is recorded as NaN, is not counted, does not stop
\* the timeframes after it, and raises nothing into analyze_ticker.
C7_MtfCount ==
  /\ pc = "mtf" =>
       /\ DOMAIN details = {MTF_TIMEFRAMES[i] : i \in 1..(tf_i - 1)}
       /\ "error" \notin DOMAIN rec
  /\ pc = "btd" => "error" \notin DOMAIN rec
  /\ MtfDone =>
       /\ DOMAIN mtf_details = {"1d", "4h", "1h"}
       /\ \A tf \in caught \cap {"1d", "4h", "1h"} : mtf_details[tf] = NaN
       /\ mtf_count = Cardinality({tf \in DOMAIN mtf_details \ caught :
                                     RGe(mtf_details[tf], I(60))})
       /\ mtf_confirm = (mtf_count >= 2)

\* 4h failed, 1d is positive and 1h scores exactly 60.0: count 2, confirmed
C7_Witness ==
  /\ pc = "btd" /\ caught = {"4h"}
  /\ mtf_details["4h"] = NaN /\ mtf_details["1h"] = I(60)
  /\ mtf_count = 2 /\ mtf_confirm

\* detect_buy_the_dip has returned from a frame it fetched
BtdComputed ==
  /\ pc \in {"signal", "refine", "trend", "append", "fill", "done"}
  /\ "btd" \notin caught
  /\ "error" \notin DOMAIN rec

\* the highest close of the last BTD_LOOKBACK_DAYS bars, or of all of them
WindowHigh(cs) ==
  LET n == Len(cs)
      w == IF n >= BTD_LOOKBACK_DAYS THEN (n - BTD_LOOKBACK_DAYS + 1)..n ELSE 1..n
  IN  CHOOSE m \in {cs[i] : i \in w} : \A i \in w : cs[i] <= m

Uptrend(h) ==
  \E t \in {compute_technical_metrics_from_hist(h)} :
     t.ema_cross = 1 /\ t.price_above_ema_slow = 1

\* C8: the flag of detect_buy_the_dip is true iff ema_cross and
\* price_above_ema_slow hold and 0.02 <= pullback <= 0.08, both inclusive,
\* where recent_high is the highest close of the last 20 bars (of the whole
\* series if shorter) and pullback = (recent_high - last_close)/recent_high,
\* or 0 when recent_high <= 0.
C8_DipBand ==
  BtdComputed =>
    LET cs == hist["Close"]
        high == WindowHigh(cs)
        last == cs[Len(cs)]
        pull == IF high > 0 THEN R(high - last, high) ELSE I(0)
        inside == IF high > 0
                  THEN 2 * high <= 100 * (high - last) /\ 100 * (high - last) <= 8 * high
                  ELSE FALSE
    IN  /\ btd_flag = (Uptrend(hist) /\ inside)
        /\ Uptrend(hist) => /\ btd_recent_high = I(high)
                            /\ btd_pullback = Round(pull, 4)

\* 22 bars whose highest close lies 21 bars back: the high is that of the
\* last 20, the pullback exactly 0.02, the flag true
C8_Witness ==
  /\ BtdComputed /\ hist = SpikeOutside
  /\ btd_flag /\ btd_recent_high = I(100) /\ btd_pullback = R(2, 100)

\* C9: if ema_cross or price_above_ema_slow is false, detect_buy_the_dip
\* returns flag false, pullback None and recent_high None, whatever the
\* pullback is.
C9_NoUptrendNoDip ==
  (BtdComputed /\ ~Uptrend(hist)) =>
     /\ btd_flag = FALSE
     /\ btd_pullback = None
     /\ btd_recent_high = None

\* a downtrend 2% under its high: no dip, no pullback, no high
C9_Witness ==
  /\ BtdComputed /\ hist = CloseOnly(<<100, 98>>)
  /\ ~btd_flag /\ btd_pullback = None /\ btd_recent_high = None

\* C10: when the fetch inside detect_buy_the_dip fails, it returns
\* (False, NaN, NaN) and raises nothing: the record analyze_ticker returns
\* has its scores, buy_the_dip false and no error.
C10_DipFetchFails ==
  "btd" \in caught =>
     /\ btd_flag = FALSE /\ btd_pullback = NaN /\ btd_recent_high = NaN
     /\ "error" \notin DOMAIN rec
     /\ pc # "btd_compute"
     /\ pc = "done" =>
          /\ "final_readiness_score" \in DOMAIN rec
          /\ rec["final_readiness_score"] = Round(final_score, 2)
          /\ rec["buy_the_dip"] = FALSE
          /\ rec["btd_pullback_pct"] = NaN

\* analyze_ticker has returned a scored record after the dip's fetch failed
C10_Witness ==
  /\ pc = "done" /\ "btd" \in caught
  /\ "final_readiness_score" \in DOMAIN rec
  /\ rec["buy_the_dip"] = FALSE
  /\ "error" \notin DOMAIN rec

\* the data sets of the provider whose daily history can be fetched
Fetchable == {w \in ProviderData : ~w.daily.fail}

\* what analyze_ticker computes from the provider's data w alone (for each
\* data set of the provider it is computed once)
ScoresAlone ==
  [w \in Fetchable |-> Scored(w.cls, w.daily.frame, w.opt, w.fi).final_score]

ScoreAlone(w) == ScoresAlone[w]

MtfAlone(w) ==
  CHOOSE p3 \in {MtfPass(p2.positives, p2.details, "1h", w.h1) :
                   p2 \in {MtfPass(p1.positives, p1.details, "4h", w.h4) :
                             p1 \in {MtfPass(0, NoDetails, "1d", w.daily)}}} : TRUE

SignalsAlone ==
  [w \in Fetchable |->
     RefineSignal(get_buy_signal_from_score(ScoresAlone[w]), ScoresAlone[w],
                  MtfAlone(w).positives >= MTF_CONFIRM_THRESHOLD,
                  BuyTheDip(w.daily.frame).flag)]

SignalAlone(w) == SignalsAlone[w]

RoundedAlone == [w \in Fetchable |-> Round(ScoresAlone[w], 2)]

\* the history log after the first n calls of the batch, had the list held
\* only the tickers whose daily fetch does not fail
RECURSIVE KeptLog(_)
KeptLog(n) ==
  IF n = 0 THEN NoFile
  ELSE IF provider[n].daily.fail THEN KeptLog(n - 1)
  ELSE append_history_row(KeptLog(n - 1), tickers[n],
                          ScoreAlone(provider[n]), SignalAlone(provider[n]))

ErrorFields == {"ticker", "asset_class", "sector", "error"}

\* C11: a ticker whose primary daily fetch fails gets a record with an error
\* field and none of the score, subscore or buy_signal fields, the call
\* returns that record, and every other ticker of the batch has the score,
\* the signal and the trend it has in the batch without the failing tickers:
\* the history log holds what the other tickers alone would have written.
C11_FailureIsolated ==
  /\ \A i \in 1..Len(rows) :
       IF provider[i].daily.fail
       THEN /\ DOMAIN rows[i] = ErrorFields
            /\ rows[i]["ticker"] = tickers[i]
       ELSE /\ "error" \notin DOMAIN rows[i]
            /\ rows[i]["final_readiness_score"] = RoundedAlone[provider[i]]
            /\ rows[i]["buy_signal"] = SignalAlone(provider[i])
            /\ rows[i]["score_trend"] =
                 get_score_trend(KeptLog(i - 1), tickers[i], TREND_LOOKBACK)
  /\ pc = "idle" => history_file = KeptLog(Len(rows))

C11_Witness ==
  \E i, j, k \in 1..Len(rows) :
    /\ i < j /\ j < k
    /\ HasScore(rows[i]) /\ "error" \in DOMAIN rows[j] /\ HasScore(rows[k])
    /\ rows[i]["ticker"] = rows[k]["ticker"]
    /\ rows[j]["ticker"] = rows[k]["ticker"]

\* rows holds one record for each of the first n tickers of the list, in the
\* order of the list
OnePerTicker(n) ==
  /\ Len(rows) = n
  /\ \A i \in 1..n : rows[i]["ticker"] = tickers[i]

LoopOver == pc \in {"saved", "raised"}

\* C12: a batch run over a finite list terminates having analyzed every
\* ticker: at every moment rows holds exactly one record for each ticker
\* already passed, in input order (none skipped, none analyzed twice), and
\* eventually the run is over with one record for each ticker of the list,
\* whichever fetches failed.
C12_EveryTickerAnalyzed ==
  /\ [](t_i <= Len(tickers) + 1 /\ OnePerTicker(t_i - 1))
  /\ <>(LoopOver /\ OnePerTicker(Len(tickers)))

C12_Witness ==
  /\ pc = "saved"
  /\ OnePerTicker(Len(tickers))
  /\ Len(rows) >= 3
  /\ \E i, j \in 1..Len(rows) :
       /\ i < j
       /\ "error" \in DOMAIN rows[i]
       /\ HasScore(rows[j])
       /\ tickers[i] = tickers[j]

\* p_w + f_w + fund_w and p_w + f_w + fund_w + inst_w, added as floats
WeightSum3 == F64Add(F64Add(weights.p_w, weights.f_w), weights.fund_w)
WeightSum4 == F64Add(WeightSum3, weights.inst_w)

OneUlpOff == {"COMMODITY", "CURRENCY"}

\* C13 (as the code has it): for every class of the table and for a class
\* that is not in it, the institutional weight is exactly INST_FLOW_WEIGHT,
\* and the three rescaled weights sum to 1 - INST_FLOW_WEIGHT up to one unit
\* in the last place of the float: exactly for EQUITY, ETF, INDEX,
\* CRYPTOCURRENCY, UNKNOWN and an unlisted class, and to the next float above
\* (0.9000000000000001) for COMMODITY and CURRENCY, whose four weights then
\* sum to the next float above 1.
C13_WeightsSum ==
  pc = "blended" =>
    /\ weights.inst_w = INST_FLOW_WEIGHT
    /\ IF asset_class \in OneUlpOff
       THEN /\ WeightSum3 = F64Up(Remaining64)
            /\ WeightSum4 = F64Up(F64Int(1))
       ELSE /\ WeightSum3 = Remaining64
            /\ WeightSum4 = F64Int(1)

\* C13 as stated: the three weights sum to exactly 1 - INST_FLOW_WEIGHT and
\* the four to exactly 1, for every class
C13_AsStated ==
  pc = "blended" =>
    /\ weights.inst_w = INST_FLOW_WEIGHT
    /\ WeightSum3 = Remaining64
    /\ WeightSum4 = F64Int(1)

C13_Witness ==
  /\ pc = "blended"
  /\ asset_class = "COMMODITY"
  /\ WeightSum3 = F64Up(Remaining64)
  /\ F64Positive(weights.p_w) /\ F64Positive(weights.f_w)

ScoreFields ==
  {"price_subscore", "flow_subscore", "fund_subscore", "inst_flow_proxy",
   "final_readiness_score"}

\* rec was filled and holds no error
RecordWithoutError ==
  "final_readiness_score" \in DOMAIN rec /\ "error" \notin DOMAIN rec

InRange0to100(x) == IsFinite(x) /\ RGe(x, I(0)) /\ RLe(x, I(100))

\* final_score with 50.0 in the place of an unavailable fundamentals or
\* institutional subscore
NeutralBlend ==
  \E w \in {WeightsOf(asset_class)} :
  \E fv \in {IF IsMissing(fund_sub) THEN I(50) ELSE fund_sub} :
  \E iv \in {IF IsMissing(inst_proxy) THEN I(50) ELSE inst_proxy} :
    final_score = RAdd(RAdd(RAdd(RMul(w.p_w, price_sub), RMul(w.f_w, flow_sub)),
                            RMul(w.fund_w, fv)), RMul(w.inst_w, iv))

\* C14: in every record filled without an error, price_subscore,
\* flow_subscore, fund_subscore, inst_flow_proxy and final_readiness_score
\* are numbers in [0, 100]; a fundamentals or institutional subscore that is
\* unavailable is reported as 50.0 and entered the blend as 50.0.
C14_RecordScores ==
  RecordWithoutError =>
    /\ \A f \in ScoreFields : InRange0to100(rec[f])
    /\ IsMissing(fund_sub) => rec.fund_subscore = I(50)
    /\ IsMissing(inst_proxy) => rec.inst_flow_proxy = I(50)
    /\ NeutralBlend
    /\ rec.final_readiness_score = Round(final_score, 2)

\* a record of an EQUITY ticker whose fundamentals scorer raised
C14_Witness ==
  /\ RecordWithoutError
  /\ asset_class = "EQUITY"
  /\ "score_fundamentals" \in invoked
  /\ IsMissing(fund_sub)
  /\ rec.fund_subscore = I(50)
  /\ InRange0to100(rec.final_readiness_score)

\* the classes whose fundamentals weight in SCORES_CONFIG is 0
NoFundWeight == {c \in AssetClasses : ~RGt(ConfigOf(c).fund, I(0))}

\* analyze_ticker got past the subscores
SubscoresAssigned == weights # NoWeights

\* C15 (as the code has it): the fundamentals scorer is never invoked for
\* COMMODITY, CRYPTOCURRENCY and CURRENCY, the classes whose fundamentals
\* weight is 0, and for them the fundamentals value blended and reported is
\* the neutral 50.0; for INDEX, whose fundamentals weight is 0.30, the scorer
\* is invoked like for EQUITY and ETF.
C15_ScorerSkipped ==
  /\ NoFundWeight = {"COMMODITY", "CRYPTOCURRENCY", "CURRENCY"}
  /\ asset_class \in NoFundWeight =>
       /\ "score_fundamentals" \notin invoked
       /\ SubscoresAssigned => IsMissing(fund_sub) /\ NeutralBlend
       /\ RecordWithoutError => rec.fund_subscore = I(50)
  /\ (asset_class \in AssetClasses \ NoFundWeight /\ SubscoresAssigned) =>
       "score_fundamentals" \in invoked

\* C15 as stated: INDEX among the classes for which the scorer is not invoked
\* and 50.0 is reported
C15_AsStated ==
  asset_class \in {"INDEX", "COMMODITY", "CRYPTOCURRENCY", "CURRENCY"} =>
    /\ "score_fundamentals" \notin invoked
    /\ RecordWithoutError => rec.fund_subscore = I(50)

\* a record of a COMMODITY ticker, filled without the scorer having run
C15_Witness ==
  /\ asset_class = "COMMODITY"
  /\ RecordWithoutError
  /\ invoked = {}
  /\ rec.fund_subscore = I(50)
  /\ weights.fund_w = F64Zero

\* |r - 60|
FromSixty(r) == RAbs(RSub(r, I(60)))

\* two calls whose bundles have an RSI each, the first at least as near to 60
NearerFirst(i, j) ==
  /\ IsFinite(calls[i].tech.rsi) /\ IsFinite(calls[j].tech.rsi)
  /\ RLe(FromSixty(calls[i].tech.rsi), FromSixty(calls[j].tech.rsi))

UpTo80(r) == RLe(r, I(80))

\* C16 (as the code has it): score_price_momentum_from_tech returns a value in
\* [0, 100] for every bundle, and with the other features fixed the score
\* does not fall as the RSI comes nearer to 60 as long as both RSI values are
\* at most 80 or both are above 80 (where the score is flat).
C16_PriceScore ==
  /\ \A i \in DOMAIN calls : InRange0to100(calls[i].result)
  /\ \A i, j \in DOMAIN calls :
       (/\ NearerFirst(i, j)
        /\ UpTo80(calls[i].tech.rsi) = UpTo80(calls[j].tech.rsi))
       => RGe(calls[i].result, calls[j].result)

\* C16 as stated: the nearer RSI never scores less, for any two RSI values of
\* [0, 100]
C16_AsStated ==
  /\ \A i \in DOMAIN calls : InRange0to100(calls[i].result)
  /\ \A i, j \in DOMAIN calls :
       NearerFirst(i, j) => RGe(calls[i].result, calls[j].result)

\* two calls, RSI 50 and RSI 40, the first scoring strictly more
C16_Witness ==
  /\ Len(calls) = 2
  /\ calls[1].tech.rsi = I(50) /\ calls[2].tech.rsi = I(40)
  /\ RGt(calls[1].result, calls[2].result)

NoOptionsMarket == {"INDEX", "CURRENCY", "COMMODITY", "CRYPTOCURRENCY"}

\* 100 * (0.30 * vol_spike_up + 0.30 * obv_slope_pos + 0.20 * tv + 0.20 * to),
\* added from whole numbers
FlowOf(tv, to) ==
  RAdd(RAdd(RAdd(I(30 * tech_daily.vol_spike_up), I(30 * tech_daily.obv_slope_pos)),
            RMul(I(20), tv)), RMul(I(20), to))

\* C17: for INDEX, CURRENCY, COMMODITY and CRYPTOCURRENCY both option-ratio
\* terms of the flow score are 0.5 whatever the options metrics are: any two
\* calls with the same bundle and class return the same score,
\* 100 * (0.30 * vol_spike_up + 0.30 * obv_slope_pos + 0.20).
C17_NeutralRatios ==
  asset_class \in NoOptionsMarket =>
    /\ \A i \in DOMAIN calls : calls[i].result = FlowOf(R(1, 2), R(1, 2))
    /\ \A i, j \in DOMAIN calls : calls[i].result = calls[j].result

\* two calls for an INDEX, one with a call/put volume ratio of 5 and one with
\* no chain at all
C17_Witness ==
  /\ asset_class = "INDEX"
  /\ Len(calls) = 2
  /\ calls[1].opt.call_put_vol_ratio = I(5)
  /\ IsMissing(calls[2].opt.call_put_vol_ratio)
  /\ calls[1].result = calls[2].result

\* the term of an available ratio: ratio / 2 kept within [0, 1]
Halved(ratio) == RMax(I(0), RMin(I(1), RDiv(ratio, I(2))))

\* C18: with no expiry or a failing fetch compute_options_metrics returns
\* every ratio (and every sum) unavailable and no expiry; with a put volume
\* sum of 0 the volume ratio is unavailable, with a put open-interest sum of
\* 0 the open-interest ratio; the call returns, and for a class with an
\* options market the flow scorer counts each unavailable ratio as 0.5 and
\* each available one as its half kept within [0, 1].
C18_UnavailableRatios ==
  \A i \in DOMAIN calls :
    \E c \in {calls[i]} :
      /\ c.resp.kind \in {"none", "fail"} =>
           /\ IsMissing(c.opt.call_put_vol_ratio) /\ IsMissing(c.opt.call_put_oi_ratio)
           /\ IsMissing(c.opt.call_vol_sum) /\ IsMissing(c.opt.put_vol_sum)
           /\ IsMissing(c.opt.call_oi_sum) /\ IsMissing(c.opt.put_oi_sum)
           /\ c.opt.opt_nearest_expiry = "None"
           /\ asset_class \notin NoOptionsMarket =>
                Near(c.result, FlowOf(R(1, 2), R(1, 2)))
      /\ c.resp.kind = "chain" =>
           /\ IsMissing(c.opt.call_put_vol_ratio) <=> c.resp.pv = 0
           /\ IsMissing(c.opt.call_put_oi_ratio) <=> c.resp.poi = 0
           /\ asset_class \notin NoOptionsMarket =>
                Near(c.result,
                     FlowOf(IF c.resp.pv = 0 THEN R(1, 2)
                            ELSE Halved(R(c.resp.cv, c.resp.pv)),
                            IF c.resp.poi = 0 THEN R(1, 2)
                            ELSE Halved(R(c.resp.coi, c.resp.poi))))

\* an EQUITY call on a chain whose put volume sum is 0 and whose open
\* interest ratio is 0: the first term counted 0.5, the second 0
C18_Witness ==
  /\ asset_class = "EQUITY"
  /\ Len(calls) >= 1
  /\ calls[1].resp.kind = "chain"
  /\ calls[1].resp.pv = 0 /\ calls[1].resp.poi = 1 /\ calls[1].resp.coi = 0
  /\ IsMissing(calls[1].opt.call_put_vol_ratio)
  /\ Near(calls[1].result, FlowOf(R(1, 2), I(0)))

\* C19: after any appends, an append for a ticker followed at once by a read
\* of that ticker's recent scores gives a sequence that ends with the score
\* just appended.
C19_AppendThenRead ==
  (pc = "read" /\ calls[1].after_append) =>
    /\ calls[1].recent # <<>>
    /\ calls[1].recent[Len(calls[1].recent)] = final_score

\* the entries written for ticker t, by the text of their Ticker column
RECURSIVE WrittenFor(_, _)
WrittenFor(written, t) ==
  IF written = <<>> THEN <<>>
  ELSE (IF Head(written).Ticker = t THEN <<Head(written).Score>> ELSE <<>>)
         \o WrittenFor(Tail(written), t)

RECURSIVE SumOf(_)
SumOf(scores) == IF scores = <<>> THEN I(0) ELSE RAdd(Head(scores), SumOf(Tail(scores)))

\* the trend of a sequence of scores: its last lookback entries, the last
\* against the mean of the ones before it
TrendOf(scores, lookback) ==
  IF Len(scores) < 2 THEN "N/A"
  ELSE LET w == TailN(scores, lookback)
           mean == RDiv(SumOf(SubSeq(w, 1, Len(w) - 1)), I(Len(w) - 1))
       IN  IF RGt(w[Len(w)], mean) THEN "RISING"
           ELSE IF RLt(w[Len(w)], mean) THEN "FALLING" ELSE "FLAT"

\* C20: get_score_trend returns "N/A" when the store does not exist or holds
\* fewer than 2 entries for the ticker, and otherwise, over the ticker's last
\* 3 entries alone, RISING, FALLING or FLAT as the last score is above, below
\* or equal to the mean of the entries before it.
C20_Trend ==
  pc = "read" =>
    score_trend = IF ~history_file.exists THEN "N/A"
                  ELSE TrendOf(WrittenFor(history_file.rows, ticker), TREND_LOOKBACK)

\* the place in the history log of the entry that call i of the batch wrote
LogIndex(i) == Cardinality({k \in 1..i : HasScore(rows[k])})

\* calls i and j of the batch are for the same ticker and the provider holds
\* the same data for both
SameTickerSameData(i, j) == tickers[i] = tickers[j] /\ provider[i] = provider[j]

\* C21: two runs of analyze_ticker for the same ticker on identical provider
\* data give the same final score (in the record and, unrounded, in the log)
\* and the same buy_signal, whatever the history log held before each of
\* them; of the record only score_trend follows the log.
C21_SameDataSameScore ==
  \A i, j \in 1..Len(rows) :
    (i < j /\ SameTickerSameData(i, j)) =>
      /\ HasScore(rows[i]) <=> HasScore(rows[j])
      /\ HasScore(rows[i]) =>
           /\ \A f \in DOMAIN rows[i] \ {"score_trend"} : rows[i][f] = rows[j][f]
           /\ pc = "idle" =>
                /\ history_file.rows[LogIndex(i)].Score
                     = history_file.rows[LogIndex(j)].Score
                /\ history_file.rows[LogIndex(i)].Signal
                     = history_file.rows[LogIndex(j)].Signal
                /\ history_file.rows[LogIndex(j)].Signal = rows[j]["buy_signal"]

\* the first and the third run of one ticker on the same data: the log held
\* nothing before the first and two entries before the third, the trend
\* differs, score and signal do not
C21_Witness ==
  /\ Len(rows) = 3
  /\ SameTickerSameData(1, 3) /\ SameTickerSameData(1, 2)
  /\ HasScore(rows[1]) /\ HasScore(rows[3])
  /\ rows[1]["score_trend"] = "N/A" /\ rows[3]["score_trend"] = "FLAT"
  /\ rows[1]["final_readiness_score"] = rows[3]["final_readiness_score"]
  /\ rows[1]["buy_signal"] = rows[3]["buy_signal"]

\* the sum of the falls (sign -1) or rises (sign 1) of the close over the
\* last RSI_PERIOD steps of hist, which has a step for each
RECURSIVE WindowMoves(_, _, _)
WindowMoves(from, to, sign) ==
  IF from > to THEN 0
  ELSE (IF sign * (hist["Close"][to] - hist["Close"][to - 1]) > 0
        THEN sign * (hist["Close"][to] - hist["Close"][to - 1]) ELSE 0)
       + WindowMoves(from, to - 1, sign)

\* hist fills the RSI window and no close of the window fell
NoFallInWindow ==
  /\ Rows(hist) >= RSI_PERIOD + 1
  /\ WindowMoves(Rows(hist) - RSI_PERIOD + 1, Rows(hist), -1) = 0

\* the RSI term (0..1) that price_sub holds, up to rounding
RsiTermUsed ==
  RDiv(RSub(price_sub, I(35 * tech_daily.ema_cross
                         + 25 * tech_daily.price_above_ema_slow
                         + 20 * tech_daily.higher_lows_3)), I(20))

\* C22: when the average down-move over the RSI period is 0 (no falling
\* close in the window), the RSI of the bundle is unavailable and the price
\* scorer uses the neutral RSI term 0.5 for it.  rsi divides ma_up by ma_down
\* unguarded: with a rise in the window rs is +inf, the RSI is 100 and the
\* term is that of an RSI above 80 (0.2), so 16 rising closes violate this.
C22_NoFallNoRsi ==
  (pc \in {"computed", "scored"} /\ NoFallInWindow) =>
    /\ IsMissing(tech_daily.rsi)
    /\ pc = "scored" => Near(RsiTermUsed, R(1, 2))

\* the OBV series compute_obv returned for hist
Obv == calls[1].obv

\* C23: compute_obv yields a series as long as the input, starting at 0;
\* each later entry is the one before plus the bar's volume when the close
\* rose, minus it when the close fell, and the same when the close is flat;
\* with no Volume column every entry is 0.  (The last entry is the bundle's
\* obv_latest.)
C23_ObvSeries ==
  pc \in {"computed", "scored"} =>
    /\ DOMAIN Obv = 1..Rows(hist)
    /\ Obv[1] = 0
    /\ \A i \in 2..Rows(hist) :
         Obv[i] = Obv[i - 1]
                  + (IF "Volume" \notin DOMAIN hist THEN 0
                     ELSE IF hist["Close"][i] > hist["Close"][i - 1]
                     THEN hist["Volume"][i]
                     ELSE IF hist["Close"][i] < hist["Close"][i - 1]
                     THEN 0 - hist["Volume"][i]
                     ELSE 0)
    /\ "Volume" \notin DOMAIN hist => \A i \in 1..Rows(hist) : Obv[i] = 0
    /\ tech_daily.obv_latest = I(Obv[Rows(hist)])

\* the 16 bars with rises, falls and two flat steps: the OBV after the flat
\* third bar is that of the second, and it has fallen at the fifth
C23_Witness ==
  /\ pc = "computed"
  /\ hist = ObvMixed
  /\ Obv[2] = 20 /\ Obv[3] = 20 /\ Obv[4] = 30 /\ Obv[5] = -10
  /\ Len(Obv) = 16

\* C24: on a frame of one or two rows compute_technical_metrics_from_hist
\* returns the complete bundle: each EMA is the first close, moved by
\* 2/(span+1) of the step to the second close when there is one; rsi is NaN,
\* rsi_rising, higher_lows_3 and obv_slope_pos are 0 and obv_slope is 0.0.  On
\* a frame with no row it raises and nothing is returned.
BundleFields ==
  {"last_close", "ema_fast", "ema_slow", "ema_cross", "price_above_ema_slow",
   "rsi", "rsi_rising", "higher_lows_3", "obv_latest", "obv_slope",
   "obv_slope_pos", "avg_vol_30", "today_vol", "vol_spike_up"}

\* close[1] + (2/(span+1)) * (close[2] - close[1]), as one quotient
SeededEma(close, span) ==
  IF Len(close) = 1 THEN I(close[1])
  ELSE R((span - 1) * close[1] + 2 * close[2], span + 1)

C24_ShortSeries ==
  /\ (pc # "tech" /\ Rows(hist) \in 1..2) =>
       /\ pc \in {"computed", "scored"}
       /\ DOMAIN tech_daily = BundleFields
       /\ Near(tech_daily.ema_fast, SeededEma(hist["Close"], EMA_FAST))
       /\ Near(tech_daily.ema_slow, SeededEma(hist["Close"], EMA_SLOW))
       /\ tech_daily.rsi = NaN
       /\ tech_daily.rsi_rising = 0
       /\ tech_daily.higher_lows_3 = 0
       /\ tech_daily.obv_slope = I(0)
       /\ tech_daily.obv_slope_pos = 0
  /\ (pc # "tech" /\ Rows(hist) = 0) => (pc = "raised" /\ tech_daily = NoTech)

C24_Witness ==
  /\ pc = "computed"
  /\ Rows(hist) = 2
  /\ hist["Close"][1] # hist["Close"][2]
  /\ tech_daily.ema_fast # I(hist["Close"][2])

\* C25: the step that refines the base label gives "STRONG BUY" or "BUY" only
\* when mtf_confirm is true; it gives "STRONG BUY" only from the base STRONG
\* BUY and "BUY" only from a base of BUY or STRONG BUY; without mtf_confirm
\* the label is one of BUY (BTD), WATCHLIST, WATCHLIST (BTD), NO TRADE; and
\* "BUY (BTD)" is given only when buy_the_dip is true and final_score >= 70.
C25_BuyNeedsMtf ==
  [][pc = "refine" =>
       /\ buy_signal' \in {"STRONG BUY", "BUY"} => mtf_confirm
       /\ buy_signal' = "STRONG BUY" => buy_signal = "STRONG BUY"
       /\ buy_signal' = "BUY" => buy_signal \in {"BUY", "STRONG BUY"}
       /\ ~mtf_confirm =>
            buy_signal' \in {"BUY (BTD)", "WATCHLIST", "WATCHLIST (BTD)", "NO TRADE"}
       /\ buy_signal' = "BUY (BTD)" => (btd_flag /\ RGe(final_score, I(70)))]_vars

\* a WATCHLIST score of 70 or more, no MTF confirmation, a dip: "BUY (BTD)"
C25_Witness ==
  /\ pc = "done" /\ ~mtf_confirm /\ btd_flag /\ InBand(70, final_score, 75)
  /\ "buy_signal" \in DOMAIN rec /\ rec["buy_signal"] = "BUY (BTD)"

\* C26: the refined buy_signal, and the one of the record, is "NO TRADE" if
\* and only if final_score < 65, whatever mtf_confirm and buy_the_dip are.
C26_NoTradeBelow65 ==
  /\ Refined => (buy_signal = "NO TRADE" <=> RLt(final_score, I(65)))
  /\ "buy_signal" \in DOMAIN rec =>
       (rec["buy_signal"] = "NO TRADE" <=> RLt(final_score, I(65)))

\* a score below 65 with MTF confirmed and a dip flagged: still "NO TRADE"
C26_Witness ==
  /\ pc = "done" /\ mtf_confirm /\ btd_flag /\ RLt(final_score, I(65))
  /\ "buy_signal" \in DOMAIN rec /\ rec["buy_signal"] = "NO TRADE"

\* C27: when final_score < 75 the refined buy_signal is the one the run with
\* the other value of mtf_confirm gives: it is fixed by final_score and
\* buy_the_dip alone, so a dip is upgraded to "BUY (BTD)" or "WATCHLIST (BTD)"
\* with or without the MTF confirmation.
OtherMtfRun ==
  RefineSignal(get_buy_signal_from_score(final_score), final_score,
               ~mtf_confirm, btd_flag)

C27_MtfIgnoredBelow75 ==
  (Refined /\ RLt(final_score, I(75))) =>
     /\ buy_signal = OtherMtfRun
     /\ buy_signal = IF btd_flag /\ RGe(final_score, I(70)) THEN "BUY (BTD)"
                     ELSE IF btd_flag /\ RGe(final_score, I(65)) THEN "WATCHLIST (BTD)"
                     ELSE get_buy_signal_from_score(final_score)

\* a dip at a score under 70 with no MTF confirmation: "WATCHLIST (BTD)"
C27_Witness ==
  /\ pc = "done" /\ ~mtf_confirm /\ btd_flag /\ InBand(65, final_score, 70)
  /\ "buy_signal" \in DOMAIN rec /\ rec["buy_signal"] = "WATCHLIST (BTD)"

\* the history log as it was when it held its first n entries
LogPrefix(n) ==
  [exists |-> n > 0, rows |-> SubSeq(history_file.rows, 1, n)]

\* the calls of the batch before call k that were for the same ticker and
\* returned a record without an error
EarlierRuns(k) == {j \in 1..(k - 1) : tickers[j] = tickers[k] /\ HasScore(rows[j])}

\* C28: the score_trend of every record is the trend of the log as it was
\* before that run's own entry was appended, so only entries of earlier runs
\* count and the run's own final_score does not; the first and the second
\* analysis of a ticker that return a record without an error report "N/A".
\* Within the call, once the entry is appended, score_trend is still the
\* trend of the log without it.
C28_TrendBeforeAppend ==
  /\ \A k \in 1..Len(rows) :
       HasScore(rows[k]) =>
         /\ rows[k]["score_trend"]
              = get_score_trend(LogPrefix(LogIndex(k) - 1), tickers[k], TREND_LOOKBACK)
         /\ Cardinality(EarlierRuns(k)) < 2 => rows[k]["score_trend"] = "N/A"
  /\ pc = "fill" =>
       /\ history_file.rows[Len(history_file.rows)].Ticker = ticker
       /\ history_file.rows[Len(history_file.rows)].Score = final_score
       /\ score_trend
            = get_score_trend(LogPrefix(Len(history_file.rows) - 1), ticker,
                              TREND_LOOKBACK)

\* three runs of one ticker with scores rising from the first to the second
\* and lower in the third: the first two report "N/A", the third "RISING"
C28_Witness ==
  /\ Len(rows) = 3
  /\ tickers[1] = tickers[2] /\ tickers[2] = tickers[3]
  /\ HasScore(rows[1]) /\ HasScore(rows[2]) /\ HasScore(rows[3])
  /\ RGt(history_file.rows[2].Score, history_file.rows[1].Score)
  /\ RLt(history_file.rows[3].Score, history_file.rows[2].Score)
  /\ rows[1]["score_trend"] = "N/A" /\ rows[2]["score_trend"] = "N/A"
  /\ rows[3]["score_trend"] = "RISING"

\* every step leaves the entries of the log as they are and in their order,
\* and adds at most one, at the end; the one it adds is written by the append
\* of analyze_ticker, after the refinement, for this ticker with its
\* final_score and its refined buy_signal
LogOnlyGrows ==
  /\ Len(history_file'.rows) \in {Len(history_file.rows), Len(history_file.rows) + 1}
  /\ SubSeq(history_file'.rows, 1, Len(history_file.rows)) = history_file.rows
  /\ Len(history_file'.rows) = Len(history_file.rows) + 1 =>
       /\ pc = "append" /\ pc' = "fill"
       /\ history_file'.rows[Len(history_file'.rows)]
            = [Ticker |-> ticker, Score |-> final_score, Signal |-> buy_signal]
       /\ buy_signal \in Labels

\* the log holds one entry for each record without an error field, in the
\* order of the calls, and none for a record with one
OneEntryPerRecord ==
  /\ pc = "idle" =>
       Len(history_file.rows)
         = Cardinality({k \in 1..Len(rows) : "error" \notin DOMAIN rows[k]})
  /\ \A k \in 1..Len(rows) :
       "error" \notin DOMAIN rows[k] =>
         /\ history_file.rows[LogIndex(k)].Ticker = rows[k]["ticker"]
         /\ Round(history_file.rows[LogIndex(k)].Score, 2)
              = rows[k]["final_readiness_score"]
         /\ history_file.rows[LogIndex(k)].Signal = rows[k]["buy_signal"]

\* C29: over a batch of analyze_ticker calls the history log only grows: a
\* call that returns a record without an error field appends exactly one
\* entry (its ticker, its final_score, the buy_signal of the record), a call
\* that fails adds none, and no entry is ever changed, moved or removed.
C29_LogOnlyGrows == []OneEntryPerRecord /\ [][LogOnlyGrows]_vars

\* three calls for one ticker, the second of them failing: the log holds the
\* entries of the first and the third
C29_Witness ==
  /\ pc = "idle" /\ Len(rows) = 3
  /\ tickers[1] = tickers[2] /\ tickers[2] = tickers[3]
  /\ "error" \notin DOMAIN rows[1]
  /\ "error" \in DOMAIN rows[2]
  /\ "error" \notin DOMAIN rows[3]
  /\ Len(history_file.rows) = 2
  /\ history_file.rows[2].Signal = rows[3]["buy_signal"]

\* the daily series the provider holds for the ticker
DailySeries == provider[1].daily.frame

\* the primary bundle says the daily trend is up
PrimaryUptrend == tech_daily.ema_cross = 1 /\ tech_daily.price_above_ema_slow = 1

\* C30: the daily series is fetched by the primary scoring, by the "1d" pass
\* of the MTF engine and by the BTD detector; the provider answering each
\* with the same series, the "1d" entry of the MTF details is price_sub as
\* computed, before the record rounds it, and the BTD detector works on that
\* series, with the ema_cross and price_above_ema_slow of the primary bundle:
\* it goes on to the pullback exactly when the primary bundle is in an
\* uptrend.
C30_SameDailySeries ==
  /\ (pc = "mtf" /\ tf_i > 1) => details["1d"] = price_sub
  /\ pc \in {"btd", "btd_compute", "signal", "refine", "trend", "append", "fill"} =>
       mtf_details["1d"] = price_sub
  /\ RecordWithoutError =>
       /\ rec["mtf_details"]["1d"] = price_sub
       /\ Round(rec["mtf_details"]["1d"], 2) = rec["price_subscore"]
  /\ pc \in {"signal", "refine", "trend", "append", "fill"} =>
       /\ hist = DailySeries
       /\ \E tech \in {compute_technical_metrics_from_hist(hist)} :
            /\ tech.ema_cross = tech_daily.ema_cross
            /\ tech.price_above_ema_slow = tech_daily.price_above_ema_slow
       /\ btd_pullback # None <=> PrimaryUptrend
       /\ btd_flag => PrimaryUptrend

\* a daily series whose price score has more than two decimals and is in an
\* uptrend: the record holds the score rounded, the MTF details hold it whole
C30_Witness ==
  /\ pc = "done" /\ RecordWithoutError
  /\ Round(price_sub, 2) # price_sub
  /\ rec["mtf_details"]["1d"] = price_sub
  /\ rec["price_subscore"] # price_sub
  /\ PrimaryUptrend /\ btd_pullback # None

====
